---------------------------- MODULE Spec2Model ----------------------------
(***************************************************************************)
(* The key-derivation and decryption pipeline of the repository:           *)
(*   layer 2  decrypt_settings.js        (settings blob -> device id)      *)
(*   layer 3  derive_book_key            (.dat file     -> book key)       *)
(*   layer 4  decrypt_file_content       (content file  -> plaintext)      *)
(* Byte strings are sequences over 0..255, text is a sequence of Unicode   *)
(* code points.  The block cipher of the crypto libraries is a library     *)
(* primitive; it is represented by a keyed permutation of 16-byte blocks.  *)
(***************************************************************************)
EXTENDS Integers, Sequences, FiniteSets, TLC

VARIABLES
    key,                \* decrypt_settings.js: process.argv[2]
    data,               \* decrypt_settings.js: bytes of the settings file
    settings,           \* decrypt_settings.js: what one run of the script did
    device_id,          \* derive_book_key: argument device_id (text)
    dat_file_contents,  \* derive_book_key: argument dat_file_contents
    derived,            \* derive_book_key: what the call did
    encrypted_content,  \* decrypt_file_content: argument encrypted_content
    content,            \* decrypt_file_content: what the call did
    title,              \* the content files of one title and their calls
    editor,             \* Editor.tsx: the project and its markdown export
    server,             \* index.ts: the requests /api/fetch-gutenberg served
    book,               \* lib/storage.ts: one import, from text to project
    batch,              \* lib/gemini.ts: one call of translateBatch
    app                 \* App.tsx: state, localStorage, translations in flight

vars == <<key, data, settings, device_id, dat_file_contents, derived,
          encrypted_content, content, title, editor, server,
                book, batch, app>>

---------------------------------------------------------------------------
(* Bytes and sequences                                                     *)

BLOCK == 16

Min(a, b) == IF a < b THEN a ELSE b

Max(a, b) == IF a < b THEN b ELSE a

\* s[a:b] of Python / s.slice(a, b) of JavaScript for 0 <= a, 0 <= b
\* (0-based, b exclusive, both clamped to the length).
Slice(s, a, b) == SubSeq(s, Min(a, Len(s)) + 1, Min(b, Len(s)))

\* s[a:] / s.subarray(a) / s.slice(a)
SliceFrom(s, a) == SubSeq(s, Min(a, Len(s)) + 1, Len(s))

\* Python's all(b == v for b in s)
AllEqual(s, v) == \A i \in 1..Len(s) : s[i] = v

\* the loop "for i in lo..hi: s = Step(s, i)".  The range is split in
\* halves and the value of the first half is taken before the second
\* starts, which keeps the evaluation shallow.
RECURSIVE Loop(_, _, _, _)
Loop(Step(_, _), s, lo, hi) ==
    IF lo > hi THEN s
    ELSE IF lo = hi THEN Step(s, lo)
    ELSE CHOOSE out \in {Loop(Step, left, (lo + hi) \div 2 + 1, hi) :
                             left \in {Loop(Step, s, lo, (lo + hi) \div 2)}} : TRUE

RECURSIVE Xor(_, _)
Xor(a, b) ==
    IF a = 0 THEN b
    ELSE IF b = 0 THEN a
    ELSE ((a + b) % 2) + 2 * Xor(a \div 2, b \div 2)

XorBlock(x, y) == [i \in 1..BLOCK |-> Xor(x[i], y[i])]

\* the n-th 16-byte block of s (1-based); bytes past the end read as 0
BlockAt(s, n) ==
    [i \in 1..BLOCK |->
        IF (n - 1) * BLOCK + i <= Len(s) THEN s[(n - 1) * BLOCK + i] ELSE 0]

---------------------------------------------------------------------------
(* The block cipher primitive: a permutation of 16-byte blocks for every   *)
(* key, with its inverse.                                                  *)

KeyByte(k, i0) == IF Len(k) = 0 THEN 0 ELSE k[(i0 % Len(k)) + 1]

KeySum(k) == IF Len(k) = 0 THEN 0 ELSE (Len(k) + k[1] + 3 * k[Len(k)]) % 256

EncryptBlock(k, b) ==
    [i \in 1..BLOCK |->
        (b[((i + 4) % BLOCK) + 1] + KeyByte(k, i - 1) + KeySum(k) + i) % 256]

DecryptBlock(k, c) ==
    [j \in 1..BLOCK |->
        LET i == ((j + 10) % BLOCK) + 1
        IN  (c[i] + 3 * 256 - KeyByte(k, i - 1) - KeySum(k) - i) % 256]

---------------------------------------------------------------------------
(* PKCS7                                                                   *)

\* the encrypting side: always adds 1..16 bytes
Pkcs7Pad(p) ==
    LET n == BLOCK - (Len(p) % BLOCK)
    IN  p \o [i \in 1..n |-> n]

\* a well-formed PKCS7 tail: last byte P in 1..16 and the last P bytes equal P
ValidPkcs7(s) ==
    /\ Len(s) > 0
    /\ s[Len(s)] >= 1
    /\ s[Len(s)] <= BLOCK
    /\ s[Len(s)] <= Len(s)
    /\ AllEqual(SliceFrom(s, Len(s) - s[Len(s)]), s[Len(s)])

---------------------------------------------------------------------------
(* AES-CBC as used by derive_book_key and decrypt_file_content             *)

\* encryption of a block-aligned plaintext p under key k and IV iv
CbcEncrypt(k, iv, p) ==
    LET Step(s, n) ==
            LET c == EncryptBlock(k, XorBlock(BlockAt(p, n), s.prev))
            IN  [prev |-> c, out |-> s.out \o c]
    IN  Loop(Step, [prev |-> iv, out |-> <<>>], 1, Len(p) \div BLOCK).out

\* decryptor.update(ciphertext) + decryptor.finalize(): the whole blocks of
\* the ciphertext; no padding is removed by the library here
CbcDecrypt(k, iv, c) ==
    LET Step(s, n) ==
            [prev |-> BlockAt(c, n),
             out |-> s.out \o XorBlock(DecryptBlock(k, BlockAt(c, n)), s.prev)]
    IN  Loop(Step, [prev |-> iv, out |-> <<>>], 1, Len(c) \div BLOCK).out

\* algorithms.AES(key) accepts keys of 128, 192 and 256 bits and raises
\* ValueError for every other length
ValidAesKey(k) == Len(k) \in {16, 24, 32}

---------------------------------------------------------------------------
(* UTF-8                                                                   *)

IsCont(b, i) == i <= Len(b) /\ b[i] >= 128 /\ b[i] <= 191

\* the code point and the width of the UTF-8 sequence that starts at b[i];
\* width 0 when no well-formed sequence starts there
Utf8At(b, i) ==
    LET c == b[i] IN
    IF c < 128 THEN [cp |-> c, w |-> 1]
    ELSE IF c >= 194 /\ c <= 223 /\ IsCont(b, i + 1)
    THEN [cp |-> (c - 192) * 64 + (b[i + 1] - 128), w |-> 2]
    ELSE IF c >= 224 /\ c <= 239 /\ IsCont(b, i + 1) /\ IsCont(b, i + 2)
    THEN LET cp == (c - 224) * 4096 + (b[i + 1] - 128) * 64 + (b[i + 2] - 128)
         IN  IF cp >= 2048 /\ ~(cp >= 55296 /\ cp <= 57343)
             THEN [cp |-> cp, w |-> 3] ELSE [cp |-> 0, w |-> 0]
    ELSE IF c >= 240 /\ c <= 244 /\ IsCont(b, i + 1) /\ IsCont(b, i + 2)
            /\ IsCont(b, i + 3)
    THEN LET cp == (c - 240) * 262144 + (b[i + 1] - 128) * 4096
                   + (b[i + 2] - 128) * 64 + (b[i + 3] - 128)
         IN  IF cp >= 65536 /\ cp <= 1114111
             THEN [cp |-> cp, w |-> 4] ELSE [cp |-> 0, w |-> 0]
    ELSE [cp |-> 0, w |-> 0]

\* bytes.decode('utf-8'): strict, UnicodeDecodeError (ok = FALSE) on any
\* malformed sequence
Utf8Decode(b) ==
    LET Step(s, i) ==
            IF ~s.ok \/ i # s.next THEN s
            ELSE IF Utf8At(b, i).w = 0 THEN [ok |-> FALSE, next |-> 0, text |-> <<>>]
            ELSE [ok |-> TRUE, next |-> i + Utf8At(b, i).w,
                  text |-> Append(s.text, Utf8At(b, i).cp)]
        r == Loop(Step, [ok |-> TRUE, next |-> 1, text |-> <<>>], 1, Len(b))
    IN  [ok |-> r.ok, text |-> r.text]

EncodeChar(cp) ==
    IF cp < 128 THEN <<cp>>
    ELSE IF cp < 2048 THEN <<192 + (cp \div 64), 128 + (cp % 64)>>
    ELSE IF cp < 65536
    THEN <<224 + (cp \div 4096), 128 + ((cp \div 64) % 64), 128 + (cp % 64)>>
    ELSE <<240 + (cp \div 262144), 128 + ((cp \div 4096) % 64),
           128 + ((cp \div 64) % 64), 128 + (cp % 64)>>

\* str.encode('utf-8')
Utf8Encode(t) ==
    LET Step(s, i) == s \o EncodeChar(t[i])
    IN  Loop(Step, <<>>, 1, Len(t))

---------------------------------------------------------------------------
(* Layer 3: derive_book_key(dat_file_contents, device_id)                  *)

\* device_id[0:16].encode('utf-8'): the first 16 characters, then encoded
intermediate_key(id) == Utf8Encode(Slice(id, 0, 16))

\* decrypted_str[68:84].encode('utf-8'): a character slice, which Python
\* clamps to the length of the text
book_key_of_ByteSlice(decrypted_str) ==
    Slice(Utf8Encode(decrypted_str), 68, 84)

book_key_of(decrypted_str) == Utf8Encode(Slice(decrypted_str, 68, 84))

NoKey == [outcome |-> "NotRun", decrypted |-> <<>>, decrypted_str |-> <<>>,
          book_key |-> <<>>]

derive_book_key(dat, id) ==
    LET ik == intermediate_key(id)
        iv == Slice(dat, 0, 16)
        ciphertext == SliceFrom(dat, 16)
        decrypted == CbcDecrypt(ik, iv, ciphertext)
        str == Utf8Decode(decrypted)
    IN  IF ~ValidAesKey(ik) \/ Len(iv) # BLOCK \/ Len(ciphertext) % BLOCK # 0
        THEN [NoKey EXCEPT !.outcome = "ValueError"]
        ELSE IF ~str.ok
        THEN [NoKey EXCEPT !.outcome = "UnicodeDecodeError",
                           !.decrypted = decrypted]
        ELSE [outcome |-> "Returned", decrypted |-> decrypted,
              decrypted_str |-> str.text, book_key |-> book_key_of(str.text)]

---------------------------------------------------------------------------
(* Layer 4: decrypt_file_content(encrypted_content, key)                   *)

\* the two early returns: fewer than 16 bytes, or a ciphertext that is
\* empty or not block-aligned
ReturnsInput_NoEmptyCheck(file) ==
    \/ Len(file) < 16
    \/ Len(SliceFrom(file, 16)) % 16 # 0

ReturnsInput(file) ==
    \/ Len(file) < 16
    \/ Len(SliceFrom(file, 16)) = 0
    \/ Len(SliceFrom(file, 16)) % 16 # 0

\* "Remove PKCS7 padding": trims only a well-formed tail
RemovePadding_Below16(decrypted) ==
    LET padding_len == decrypted[Len(decrypted)]
    IN  IF 0 < padding_len /\ padding_len < 16
           /\ AllEqual(SliceFrom(decrypted, Len(decrypted) - padding_len),
                       padding_len)
        THEN [trimmed |-> TRUE,
              bytes |-> Slice(decrypted, 0, Len(decrypted) - padding_len)]
        ELSE [trimmed |-> FALSE, bytes |-> decrypted]

RemovePadding_NoAllCheck(decrypted) ==
    LET padding_len == decrypted[Len(decrypted)]
    IN  IF 0 < padding_len /\ padding_len <= 16
        THEN [trimmed |-> TRUE,
              bytes |-> Slice(decrypted, 0, Len(decrypted) - padding_len)]
        ELSE [trimmed |-> FALSE, bytes |-> decrypted]

RemovePadding(decrypted) ==
    LET padding_len == decrypted[Len(decrypted)]
    IN  IF 0 < padding_len /\ padding_len <= 16
           /\ AllEqual(SliceFrom(decrypted, Len(decrypted) - padding_len),
                       padding_len)
        THEN [trimmed |-> TRUE,
              bytes |-> Slice(decrypted, 0, Len(decrypted) - padding_len)]
        ELSE [trimmed |-> FALSE, bytes |-> decrypted]

NoContent == [outcome |-> "NotRun", bytes |-> <<>>]

\* the outcome is the path taken: an early return (PassedThrough), the
\* return after trimming (Decrypted) or without (DecryptedUnpadded), or
\* the exception raised (ValueError by AES(key), IndexError by decrypted[-1])
decrypt_file_content(file, k) ==
    LET iv == Slice(file, 0, 16)
        ciphertext == SliceFrom(file, 16)
        decrypted == CbcDecrypt(k, iv, ciphertext)
    IN  IF ReturnsInput(file)
        THEN [outcome |-> "PassedThrough", bytes |-> file]
        ELSE IF ~ValidAesKey(k)
        THEN [outcome |-> "ValueError", bytes |-> <<>>]
        ELSE IF Len(decrypted) = 0
        THEN [outcome |-> "IndexError", bytes |-> <<>>]
        ELSE [outcome |-> IF RemovePadding(decrypted).trimmed
                          THEN "Decrypted" ELSE "DecryptedUnpadded",
              bytes |-> RemovePadding(decrypted).bytes]

---------------------------------------------------------------------------
(* Layer 2: decrypt_settings.js                                            *)

HEADER_SIZE == 256

\* e.length of a JavaScript string: UTF-16 code units
JsLength(e) == Len(e) + Cardinality({i \in 1..Len(e) : e[i] >= 65536})

\* CryptoJS.pad.Pkcs7.pad(t, 4): pads the byte string to a multiple of
\* 4 words = 16 bytes, always adding at least one byte
CryptoJsPkcs7Pad(t) ==
    LET n == 16 - (Len(t) % 16)
    IN  t \o [i \in 1..n |-> n]

\* function $b(e): the key bytes, padded when e.length is no multiple of 16
\* (and, for comparison, when the number of bytes is no multiple of 16)
b__PadsByBytes(e) ==
    IF Len(Utf8Encode(e)) % 16 # 0
    THEN CryptoJsPkcs7Pad(Utf8Encode(e)) ELSE Utf8Encode(e)

b_(e) ==
    IF JsLength(e) % 16 # 0 THEN CryptoJsPkcs7Pad(Utf8Encode(e)) ELSE Utf8Encode(e)

\* CryptoJS.AES.decrypt(.., {mode: ECB, padding: NoPadding}): every block on
\* its own, a trailing partial block is processed zero-filled, and the
\* result keeps the length (sigBytes) of the ciphertext (and, for
\* comparison, the same with every block chained to the one before it)
EcbDecrypt_Chained(k, c) ==
    LET Before(n) == IF n = 1 THEN [i \in 1..BLOCK |-> 0] ELSE BlockAt(c, n - 1)
        Step(s, n) == s \o XorBlock(DecryptBlock(k, BlockAt(c, n)), Before(n))
    IN  Slice(Loop(Step, <<>>, 1, (Len(c) + BLOCK - 1) \div BLOCK), 0, Len(c))

EcbDecrypt(k, c) ==
    LET Step(s, n) == s \o DecryptBlock(k, BlockAt(c, n))
    IN  Slice(Loop(Step, <<>>, 1, (Len(c) + BLOCK - 1) \div BLOCK), 0, Len(c))

\* the writing side of the settings file, for a block-aligned plaintext
EcbEncrypt(k, p) ==
    LET Step(s, n) == s \o EncryptBlock(k, BlockAt(p, n))
    IN  Loop(Step, <<>>, 1, Len(p) \div BLOCK)

\* Buffer.toString('utf8'): malformed input is not an error, each maximal
\* malformed part becomes U+FFFD
SecondOk(c, b, j) ==
    /\ j <= Len(b)
    /\ b[j] >= (IF c = 224 THEN 160 ELSE IF c = 240 THEN 144 ELSE 128)
    /\ b[j] <= (IF c = 237 THEN 159 ELSE IF c = 244 THEN 143 ELSE 191)

MalformedWidth(b, i) ==
    LET c == b[i] IN
    IF c >= 224 /\ c <= 239 /\ SecondOk(c, b, i + 1) THEN 2
    ELSE IF c >= 240 /\ c <= 244 /\ SecondOk(c, b, i + 1)
    THEN (IF IsCont(b, i + 2) THEN 3 ELSE 2)
    ELSE 1

JsUtf8Decode(b) ==
    LET Step(s, i) ==
            IF i # s.next THEN s
            ELSE IF Utf8At(b, i).w = 0
            THEN [next |-> i + MalformedWidth(b, i), text |-> Append(s.text, 65533)]
            ELSE [next |-> i + Utf8At(b, i).w,
                  text |-> Append(s.text, Utf8At(b, i).cp)]
    IN  Loop(Step, [next |-> 1, text |-> <<>>], 1, Len(b)).text

---------------------------------------------------------------------------
(* JSON.parse.  A value is [t, s, m]: t its type, s the characters of a    *)
(* string or of a number, m the members [k, v] of an object or array.      *)

JsValue(t, s, m) == [t |-> t, s |-> s, m |-> m]

undefined == JsValue("undefined", <<>>, <<>>)

Failed == [ok |-> FALSE, v |-> undefined, i |-> 0]

At(t, i) == IF i <= Len(t) THEN t[i] ELSE 0

IsDigit(c) == c >= 48 /\ c <= 57

IsHex(c) == IsDigit(c) \/ (c >= 65 /\ c <= 70) \/ (c >= 97 /\ c <= 102)

HexVal(c) == IF IsDigit(c) THEN c - 48 ELSE IF c >= 97 THEN c - 87 ELSE c - 55

RECURSIVE SkipWs(_, _)
SkipWs(t, i) == IF At(t, i) \in {32, 9, 10, 13} THEN SkipWs(t, i + 1) ELSE i

RECURSIVE SkipDigits(_, _)
SkipDigits(t, i) == IF IsDigit(At(t, i)) THEN SkipDigits(t, i + 1) ELSE i

\* the character an escape \c stands for, 0 when \c is no escape
Escape(c) ==
    IF c \in {34, 92, 47} THEN c
    ELSE IF c = 98 THEN 8 ELSE IF c = 102 THEN 12 ELSE IF c = 110 THEN 10
    ELSE IF c = 114 THEN 13 ELSE IF c = 116 THEN 9 ELSE 0

\* the string whose opening quote is t[i - 1]: a scan up to the closing quote
ParseString(t, i) ==
    LET Step(s, j) ==
            IF s.state # "open" \/ j # s.next THEN s
            ELSE IF t[j] < 32 THEN [s EXCEPT !.state = "bad"]
            ELSE IF t[j] = 34 THEN [s EXCEPT !.state = "closed", !.next = j + 1]
            ELSE IF t[j] # 92 THEN [s EXCEPT !.next = j + 1, !.acc = Append(s.acc, t[j])]
            ELSE IF At(t, j + 1) = 117
            THEN IF \A d \in 2..5 : IsHex(At(t, j + d))
                 THEN [s EXCEPT !.next = j + 6,
                                !.acc = Append(s.acc,
                                    HexVal(t[j + 2]) * 4096 + HexVal(t[j + 3]) * 256
                                    + HexVal(t[j + 4]) * 16 + HexVal(t[j + 5]))]
                 ELSE [s EXCEPT !.state = "bad"]
            ELSE IF Escape(At(t, j + 1)) # 0
            THEN [s EXCEPT !.next = j + 2, !.acc = Append(s.acc, Escape(t[j + 1]))]
            ELSE [s EXCEPT !.state = "bad"]
        r == Loop(Step, [state |-> "open", next |-> i, acc |-> <<>>], i, Len(t))
    IN  IF r.state = "closed"
        THEN [ok |-> TRUE, v |-> JsValue("string", r.acc, <<>>), i |-> r.next]
        ELSE Failed

\* -?(0|[1-9][0-9]*)(\.[0-9]+)?([eE][+-]?[0-9]+)?
ParseNumber(t, i) ==
    LET a == IF At(t, i) = 45 THEN i + 1 ELSE i
        b == IF At(t, a) = 48 THEN a + 1 ELSE SkipDigits(t, a)
        c == IF At(t, b) = 46 THEN SkipDigits(t, b + 1) ELSE b
        e == IF At(t, c) \in {101, 69}
             THEN (IF At(t, c + 1) \in {43, 45} THEN c + 2 ELSE c + 1)
             ELSE c
        d == IF e = c THEN c ELSE SkipDigits(t, e)
    IN  IF b = a \/ (At(t, b) = 46 /\ c = b + 1) \/ (e # c /\ d = e)
        THEN Failed
        ELSE [ok |-> TRUE, v |-> JsValue("number", SubSeq(t, i, d - 1), <<>>), i |-> d]

ParseWord(t, i, word, type) ==
    IF SubSeq(t, i, Min(i + Len(word) - 1, Len(t))) = word
    THEN [ok |-> TRUE, v |-> JsValue(type, <<>>, <<>>), i |-> i + Len(word)]
    ELSE Failed

RECURSIVE ParseValue(_, _)
RECURSIVE ParseMembers(_, _, _)
RECURSIVE ParseElements(_, _, _)

\* i is at the first non-blank character of a value
ParseValue(t, i) ==
    LET c == At(t, i) IN
    IF c = 123
    THEN (IF At(t, SkipWs(t, i + 1)) = 125
          THEN [ok |-> TRUE, v |-> JsValue("object", <<>>, <<>>),
                i |-> SkipWs(t, i + 1) + 1]
          ELSE ParseMembers(t, SkipWs(t, i + 1), <<>>))
    ELSE IF c = 91
    THEN (IF At(t, SkipWs(t, i + 1)) = 93
          THEN [ok |-> TRUE, v |-> JsValue("array", <<>>, <<>>),
                i |-> SkipWs(t, i + 1) + 1]
          ELSE ParseElements(t, SkipWs(t, i + 1), <<>>))
    ELSE IF c = 34 THEN ParseString(t, i + 1)
    ELSE IF c = 45 \/ IsDigit(c) THEN ParseNumber(t, i)
    ELSE IF c = 116 THEN ParseWord(t, i, <<116, 114, 117, 101>>, "true")
    ELSE IF c = 102 THEN ParseWord(t, i, <<102, 97, 108, 115, 101>>, "false")
    ELSE IF c = 110 THEN ParseWord(t, i, <<110, 117, 108, 108>>, "null")
    ELSE Failed

\* i is at the opening quote of the next member's name
ParseMembers(t, i, acc) ==
    IF At(t, i) # 34 THEN Failed
    ELSE LET name == ParseString(t, i + 1) IN
         IF ~name.ok \/ At(t, SkipWs(t, name.i)) # 58 THEN Failed
         ELSE LET val == ParseValue(t, SkipWs(t, SkipWs(t, name.i) + 1)) IN
              IF ~val.ok THEN Failed
              ELSE LET j == SkipWs(t, val.i)
                       all == Append(acc, [k |-> name.v.s, v |-> val.v])
                   IN  IF At(t, j) = 44 THEN ParseMembers(t, SkipWs(t, j + 1), all)
                       ELSE IF At(t, j) = 125
                       THEN [ok |-> TRUE, v |-> JsValue("object", <<>>, all),
                             i |-> j + 1]
                       ELSE Failed

\* i is at the first non-blank character of the next element
ParseElements(t, i, acc) ==
    LET val == ParseValue(t, i) IN
    IF ~val.ok THEN Failed
    ELSE LET j == SkipWs(t, val.i)
             all == Append(acc, [k |-> <<>>, v |-> val.v])
         IN  IF At(t, j) = 44 THEN ParseElements(t, SkipWs(t, j + 1), all)
             ELSE IF At(t, j) = 93
             THEN [ok |-> TRUE, v |-> JsValue("array", <<>>, all), i |-> j + 1]
             ELSE Failed

\* JSON.parse(text): ok = FALSE is the SyntaxError
JsonParse(t) ==
    LET r == ParseValue(t, SkipWs(t, 1)) IN
    IF r.ok /\ SkipWs(t, r.i) = Len(t) + 1 THEN r ELSE Failed

\* the JavaScript expression v.name; reading a property of null throws
RECURSIVE LastMember(_, _, _)
LastMember(m, name, n) ==
    IF n = 0 THEN undefined
    ELSE IF m[n].k = name THEN m[n].v
    ELSE LastMember(m, name, n - 1)

Member(v, name) ==
    IF v.t = "object" THEN LastMember(v.m, name, Len(v.m)) ELSE undefined

\* whether a number literal denotes zero
IsZero(s) == \A i \in 1..Len(s) :
    \/ ~IsDigit(s[i]) \/ s[i] = 48
    \/ \E j \in 1..(i - 1) : s[j] \in {101, 69}

\* JavaScript truthiness
Truthy(v) ==
    \/ v.t \in {"object", "array", "true"}
    \/ v.t = "string" /\ Len(v.s) > 0
    \/ v.t = "number" /\ ~IsZero(v.s)

Name_data == <<100, 97, 116, 97>>
Name_device == <<100, 101, 118, 105, 99, 101>>
Name_deviceId == <<100, 101, 118, 105, 99, 101, 73, 100>>

---------------------------------------------------------------------------
(* The script decrypt_settings.js, from argv to its last statement         *)

NoSettings == [outcome |-> "NotRun", keyWordArray |-> <<>>,
               ciphertext |-> <<>>,
               decryptedArray |-> <<>>, unpaddedArray |-> <<>>,
               parsed |-> undefined, deviceId |-> undefined]

\* "Check padding": the test the script makes before it trims
PaddingAccepted(decryptedArray) ==
    /\ Len(decryptedArray) > 0
    /\ decryptedArray[Len(decryptedArray)] > 0
    /\ decryptedArray[Len(decryptedArray)] <= 16

\* "Extract device ID": which value, if any, the script prints
ExtractDeviceId(parsed) ==
    IF parsed.t = "null" THEN [NoSettings EXCEPT !.outcome = "TypeError"]
    ELSE IF Truthy(Member(parsed, Name_data))
            /\ Truthy(Member(Member(parsed, Name_data), Name_device))
    THEN [NoSettings EXCEPT
            !.outcome = "DeviceId",
            !.deviceId = Member(Member(Member(parsed, Name_data), Name_device),
                                Name_deviceId)]
    ELSE IF Truthy(Member(parsed, Name_device))
    THEN [NoSettings EXCEPT
            !.outcome = "DeviceId",
            !.deviceId = Member(Member(parsed, Name_device), Name_deviceId)]
    ELSE [NoSettings EXCEPT !.outcome = "NoDeviceId"]

\* data.slice(HEADER_SIZE), and the same from one byte earlier
encryptedData_FromLastHeaderByte(file) == SliceFrom(file, HEADER_SIZE - 1)

encryptedData(file) == SliceFrom(file, HEADER_SIZE)

decrypt_settings(k, file) ==
    LET keyWordArray == b_(k)
        decryptedArray == EcbDecrypt(keyWordArray, encryptedData(file))
        paddingLen == decryptedArray[Len(decryptedArray)]
        unpaddedArray == Slice(decryptedArray, 0,
                               Max(Len(decryptedArray) - paddingLen, 0))
        json == JsonParse(JsUtf8Decode(unpaddedArray))
        run == [NoSettings EXCEPT !.keyWordArray = keyWordArray,
                                  !.ciphertext = encryptedData(file),
                                  !.decryptedArray = decryptedArray]
    IN  IF Len(k) = 0 THEN [NoSettings EXCEPT !.outcome = "Usage"]
        ELSE IF ~PaddingAccepted(decryptedArray)
        THEN [run EXCEPT !.outcome = "HexDump"]
        ELSE IF ~json.ok
        THEN [run EXCEPT !.outcome = "SyntaxError",
                         !.unpaddedArray = unpaddedArray]
        ELSE [run EXCEPT !.outcome = ExtractDeviceId(json.v).outcome,
                         !.unpaddedArray = unpaddedArray,
                         !.parsed = json.v,
                         !.deviceId = ExtractDeviceId(json.v).deviceId]

---------------------------------------------------------------------------
(* Inputs                                                                  *)

NumIVs == 2

MaxRawLen == 49

\* a byte buffer of length n that is no ciphertext of anything in particular
Raw(n) == [i \in 1..n |-> (i * 7 + n * 13 + 1) % 256]

\* an ASCII text of n printable characters
Text(n) == [i \in 1..n |-> 48 + ((i * 7) % 75)]

IV(n) == [i \in 1..BLOCK |-> (n * 37 + i * 11) % 256]

\* "8a41b50d-8f56-472c-818a-fd3b0cb1f400"
Secret_Uuid ==
    <<56, 97, 52, 49, 98, 53, 48, 100, 45, 56, 102, 53, 54, 45, 52, 55, 50,
      99, 45, 56, 49, 56, 97, 45, 102, 100, 51, 98, 48, 99, 98, 49, 102,
      52, 48, 48>>

\* "0123456789abcdef"
Secret_16 ==
    <<48, 49, 50, 51, 52, 53, 54, 55, 56, 57, 97, 98, 99, 100, 101, 102>>

\* "abc"
Secret_3 == <<97, 98, 99>>

\* a secret of 32 characters and 36 bytes: four times U+00E9, then
\* "0123456789abcdefghijklmnopqr"
Secret_Accents ==
    [i \in 1..4 |-> 233]
    \o <<48, 49, 50, 51, 52, 53, 54, 55, 56, 57>>
    \o [i \in 1..18 |-> 96 + i]

\* parsed.data.device.deviceId, a 20-character ASCII identifier: {"data":{"device":{"deviceId":"0123456789abcdefghij"}}}
Json_DataDevice ==
    <<123, 34, 100, 97, 116, 97, 34, 58, 123, 34, 100, 101, 118, 105, 99,
      101, 34, 58, 123, 34, 100, 101, 118, 105, 99, 101, 73, 100, 34, 58,
      34, 48, 49, 50, 51, 52, 53, 54, 55, 56, 57, 97, 98, 99, 100, 101,
      102, 103, 104, 105, 106, 34, 125, 125, 125>>

\* parsed.device.deviceId, an 8-character identifier: {"device":{"deviceId":"short-id"}}
Json_Device ==
    <<123, 34, 100, 101, 118, 105, 99, 101, 34, 58, 123, 34, 100, 101, 118,
      105, 99, 101, 73, 100, 34, 58, 34, 115, 104, 111, 114, 116, 45, 105,
      100, 34, 125, 125>>

\* a device object without deviceId: {"data":{"device":{}}}
Json_NoDeviceId ==
    <<123, 34, 100, 97, 116, 97, 34, 58, 123, 34, 100, 101, 118, 105, 99,
      101, 34, 58, 123, 125, 125, 125>>

\* a record without device: {"data":{}}
Json_NoDevice ==
    <<123, 34, 100, 97, 116, 97, 34, 58, 123, 125, 125>>

\* the JSON value null: null
Json_Null ==
    <<110, 117, 108, 108>>

\* no JSON text: {"data":
Json_Truncated ==
    <<123, 34, 100, 97, 116, 97, 34, 58>>

\* an identifier whose first character takes two bytes: {"data":{"device":{"deviceId":"\xe9123456789abcdefgh"}}}
Json_Accent ==
    <<123, 34, 100, 97, 116, 97, 34, 58, 123, 34, 100, 101, 118, 105, 99,
      101, 34, 58, 123, 34, 100, 101, 118, 105, 99, 101, 73, 100, 34, 58,
      34, 195, 169, 49, 50, 51, 52, 53, 54, 55, 56, 57, 97, 98, 99, 100,
      101, 102, 103, 104, 34, 125, 125, 125>>

\* an identifier whose first 16 characters take 24 bytes: {"data":{"device":{"deviceId":"\xe9\xe9\xe9\xe9\xe9\xe9\xe9\xe901234567zz"}}}
Json_Accents ==
    <<123, 34, 100, 97, 116, 97, 34, 58, 123, 34, 100, 101, 118, 105, 99,
      101, 34, 58, 123, 34, 100, 101, 118, 105, 99, 101, 73, 100, 34, 58,
      34, 195, 169, 195, 169, 195, 169, 195, 169, 195, 169, 195, 169, 195,
      169, 195, 169, 48, 49, 50, 51, 52, 53, 54, 55, 122, 122, 34, 125,
      125, 125>>

\* a record followed by blanks and one byte 2: the last two bytes are 32, 2
\* {"device":{"deviceId":"ABCDEFGHIJKLMNOPQRST"}}
Plain_BadTail ==
    <<123, 34, 100, 101, 118, 105, 99, 101, 34, 58, 123, 34, 100, 101, 118,
      105, 99, 101, 73, 100, 34, 58, 34, 65, 66, 67, 68, 69, 70, 71, 72,
      73, 74, 75, 76, 77, 78, 79, 80, 81, 82, 83, 84, 34, 125, 125, 32, 2>>

\* an identifier that starts with the byte 255, which is no UTF-8
Json_BadUtf8 ==
    <<123, 34, 100, 101, 118, 105, 99, 101, 34, 58, 123, 34, 100, 101, 118,
      105, 99, 101, 73, 100, 34, 58, 34, 255, 49, 50, 51, 52, 53, 54, 55,
      56, 57, 97, 98, 99, 100, 101, 102, 103, 104, 105, 34, 125, 125>>

\* a record with no padding at all, blank-filled to one block
Plain_Blank == <<123, 125>> \o [i \in 1..14 |-> 32]

\* a record after two blocks of blanks, so two equal plaintext blocks
Plain_Indented == [i \in 1..32 |-> 32] \o <<123, 125>>

\* a record whose last byte is 0
Plain_Zero == <<123, 125>> \o [i \in 1..13 |-> 32] \o <<0>>

Header == [i \in 1..HEADER_SIZE |-> (i * 3) % 256]

Secrets == {Secret_Uuid, Secret_16, Secret_3}

SettingsPlaintexts ==
    {Pkcs7Pad(t) : t \in {Json_DataDevice, Json_Device, Json_NoDeviceId,
                          Json_NoDevice, Json_Null, Json_Truncated,
                          Json_Accent, Json_Accents, Json_BadUtf8}}
    \cup {Plain_BadTail, Plain_Blank, Plain_Zero}

\* a settings file written for secret k
SettingsFile(k, plain) == Header \o EcbEncrypt(b_(k), plain)

SettingsInputs ==
    {<<k, SettingsFile(k, p)>> : k \in Secrets, p \in SettingsPlaintexts}
    \cup {<<k, SettingsFile(Secret_Uuid, Pkcs7Pad(Json_DataDevice))>> :
              k \in {Secret_16, <<>>}}
    \cup {<<Secret_Accents, SettingsFile(Secret_Accents, Pkcs7Pad(Json_NoDevice))>>}
    \cup {<<Secret_Uuid, SettingsFile(Secret_Uuid, Pkcs7Pad(Plain_Indented))>>}
    \cup {<<Secret_Uuid, f>> :
              f \in {Header, Slice(Header, 0, 100),
                     Slice(SettingsFile(Secret_Uuid, Pkcs7Pad(Json_Device)), 0,
                           HEADER_SIZE + 20)}}

\* the key the writer of a .dat file uses: the first 16 bytes of the
\* identifier
WriterKey(id) == Slice(Utf8Encode(id), 0, 16)

\* a text of n characters with the two-byte character U+00E9 at position at
\* (0-based)
TextWith(n, at) == [i \in 1..n |-> IF i = at + 1 THEN 233 ELSE Text(n)[i]]

KeyMaterialPlaintexts ==
    {Pkcs7Pad(Text(n)) : n \in {70, 80, 84, 96}}
    \cup {Text(96),
          Pkcs7Pad(Utf8Encode(TextWith(100, 10))),
          Pkcs7Pad(Utf8Encode(TextWith(100, 70))),
          Pkcs7Pad(TextWith(90, 5))}

DatFiles(id) ==
    {IV(n) \o CbcEncrypt(WriterKey(id), IV(n), p) :
        n \in 1..NumIVs, p \in KeyMaterialPlaintexts}
    \cup {Raw(n) : n \in {10, 16, 30}}

ContentPlaintexts ==
    {<<>>,
    <<72, 101, 108, 108, 111, 32, 87, 111, 114, 108, 100, 32, 99, 111, 110,
      116, 101, 110, 116>>,
     Text(16),
     Text(14) \o <<2, 2>>,
     Text(20) \o <<1>>,
     Text(16) \o [i \in 1..16 |-> 16]}

ContentFiles(k) ==
    {IV(n) \o CbcEncrypt(k, IV(n), Pkcs7Pad(p)) :
        n \in 1..NumIVs, p \in ContentPlaintexts}
    \cup {IV(1) \o CbcEncrypt(k, IV(1), p) :
              p \in {Text(32), Text(30) \o <<32, 2>>}}
    \cup {Raw(n) : n \in 0..MaxRawLen}

---------------------------------------------------------------------------
(* The parts that are idle while the pipeline runs                         *)

NoTitle == [key |-> <<>>, calls |-> <<>>]

NoEditor == [chapters |-> <<>>, download |-> FALSE, markdown |-> <<>>]

NoBook == [pc |-> "idle", lib |-> "text", text |-> <<>>, parsed |-> <<>>,
           chapters |-> <<>>]

NoBatch == [pc |-> "idle", paragraphs |-> <<>>, i |-> 0, results |-> <<>>,
            called |-> <<>>, thrown |-> {}, onProgress |-> <<>>]

\* null, where the code has a Project
NoProject == [id |-> 0, prompt |-> 0, paragraphs |-> <<>>]

NoApp == [view |-> "idle", projects |-> <<>>, currentProject |-> NoProject,
          storage |-> <<>>, current |-> 0, translatingIds |-> {},
          inflight |-> <<>>, importing |-> 0, nextId |-> 0, deleted |-> {},
          events |-> 0]

NoServer == [served |-> 0, gutenbergUrl |-> [null |-> TRUE, s |-> <<>>],
             status |-> 0, fetched |-> <<>>]

---------------------------------------------------------------------------
(* The pipeline                                                            *)

Init ==
    /\ key = <<>>
    /\ data = <<>>
    /\ settings = NoSettings
    /\ device_id = <<>>
    /\ dat_file_contents = <<>>
    /\ derived = NoKey
    /\ encrypted_content = <<>>
    /\ content = NoContent
    /\ book = NoBook
    /\ batch = NoBatch
    /\ app = NoApp
    /\ title = NoTitle
    /\ editor = NoEditor
    /\ server = NoServer

\* node decrypt_settings.js <key> <settings_file_path>
RunDecryptSettings ==
    /\ settings.outcome = "NotRun"
    /\ \E in \in SettingsInputs :
          /\ key' = in[1]
          /\ data' = in[2]
          /\ settings' = decrypt_settings(in[1], in[2])
    /\ UNCHANGED <<device_id, dat_file_contents, derived, encrypted_content,
                   content, title, editor, server,
                book, batch, app>>

\* derive_book_key(dat_file_contents, device_id) with the identifier the
\* script printed
DeriveBookKey ==
    /\ settings.outcome = "DeviceId"
    /\ settings.deviceId.t = "string"
    /\ derived.outcome = "NotRun"
    /\ \E dat \in DatFiles(settings.deviceId.s) :
          /\ device_id' = settings.deviceId.s
          /\ dat_file_contents' = dat
          /\ derived' = derive_book_key(dat, settings.deviceId.s)
    /\ UNCHANGED <<key, data, settings, encrypted_content, content, title,
                   editor, server,
                book, batch, app>>

\* decrypt_file_content(encrypted_content, key) with the derived book key
DecryptFileContent ==
    /\ derived.outcome = "Returned"
    /\ content.outcome = "NotRun"
    /\ \E file \in ContentFiles(derived.book_key) :
          /\ encrypted_content' = file
          /\ content' = decrypt_file_content(file, derived.book_key)
    /\ UNCHANGED <<key, data, settings, device_id, dat_file_contents, derived,
                   title, editor, server,
                book, batch, app>>

Next == RunDecryptSettings \/ DeriveBookKey \/ DecryptFileContent

Spec == Init /\ [][Next]_vars

---------------------------------------------------------------------------
(* The content files of one title, decrypted by concurrent calls of        *)
(* decrypt_file_content.  A call is cut at the places where it has read    *)
(* or produced a value: the early returns, the cipher, the padding.        *)

NumFiles == 2

\* the keys derive_book_key returns for an 84- and an 80-character text
TitleKeys == {book_key_of(Text(84)), book_key_of(Text(80))}

Hello == <<72, 101, 108, 108, 111, 32, 87, 111, 114, 108, 100, 32, 99, 111,
           110, 116, 101, 110, 116>>

TitleFiles(k) ==
    {Raw(10), Raw(30), Raw(32),
     IV(1) \o CbcEncrypt(k, IV(1), Pkcs7Pad(Hello)),
     IV(2) \o CbcEncrypt(k, IV(2), Pkcs7Pad(Text(16)))}

\* a call that has its argument and has not run a statement yet
NewCall(file) ==
    [encrypted_content |-> file, pc |-> "line183", iv |-> <<>>,
     ciphertext |-> <<>>, decrypted |-> <<>>, outcome |-> "NotRun",
     bytes |-> <<>>]

Return(call, outcome, bytes) ==
    [call EXCEPT !.pc = "done", !.outcome = outcome, !.bytes = bytes]

\* the local variable iv of call i
LocalIv_AssignedOnce(i) ==
    title.calls[CHOOSE j \in 1..i : /\ Len(title.calls[j].iv) = BLOCK
                                     /\ \A h \in 1..(j - 1) :
                                          Len(title.calls[h].iv) # BLOCK].iv

LocalIv(i) == title.calls[i].iv

InitTitle ==
    /\ key = <<>>
    /\ data = <<>>
    /\ settings = NoSettings
    /\ device_id = <<>>
    /\ dat_file_contents = <<>>
    /\ derived = NoKey
    /\ encrypted_content = <<>>
    /\ content = NoContent
    /\ book = NoBook
    /\ batch = NoBatch
    /\ app = NoApp
    /\ editor = NoEditor
    /\ server = NoServer
    /\ \E k \in TitleKeys :
          \E files \in [1..NumFiles -> TitleFiles(k)] :
             title = [key |-> k,
                      calls |-> [i \in 1..NumFiles |-> NewCall(files[i])]]

\* lines 183-190: the early returns, iv and ciphertext
CallSplits(i) ==
    LET call == title.calls[i] IN
    /\ call.pc = "line183"
    /\ title' = [title EXCEPT !.calls[i] =
          IF ReturnsInput(call.encrypted_content)
          THEN Return(call, "PassedThrough", call.encrypted_content)
          ELSE [call EXCEPT !.pc = "line192",
                            !.iv = Slice(call.encrypted_content, 0, 16),
                            !.ciphertext = SliceFrom(call.encrypted_content, 16)]]

\* lines 192-194: the cipher for the key and the iv, and the decryption
CallDecrypts(i) ==
    LET call == title.calls[i] IN
    /\ call.pc = "line192"
    /\ title' = [title EXCEPT !.calls[i] =
          IF ~ValidAesKey(title.key)
          THEN Return(call, "ValueError", <<>>)
          ELSE [call EXCEPT !.pc = "line197",
                            !.decrypted = CbcDecrypt(title.key, LocalIv(i),
                                                     call.ciphertext)]]

\* lines 196-202: the padding and the return
CallRemovesPadding(i) ==
    LET call == title.calls[i] IN
    /\ call.pc = "line197"
    /\ title' = [title EXCEPT !.calls[i] =
          IF Len(call.decrypted) = 0
          THEN Return(call, "IndexError", <<>>)
          ELSE Return(call,
                      IF RemovePadding(call.decrypted).trimmed
                      THEN "Decrypted" ELSE "DecryptedUnpadded",
                      RemovePadding(call.decrypted).bytes)]

PipelineIdle ==
    UNCHANGED <<key, data, settings, device_id, dat_file_contents, derived,
                encrypted_content, content, editor, server,
                book, batch, app>>

FileSplits == \E i \in 1..NumFiles : CallSplits(i) /\ PipelineIdle

FileDecrypts == \E i \in 1..NumFiles : CallDecrypts(i) /\ PipelineIdle

FileRemovesPadding == \E i \in 1..NumFiles : CallRemovesPadding(i) /\ PipelineIdle

NextTitle == FileSplits \/ FileDecrypts \/ FileRemovesPadding

SpecTitle == InitTitle /\ [][NextTitle]_vars

---------------------------------------------------------------------------
(* The translation app: lib/export.ts and components/Editor.tsx.  A text   *)
(* is a sequence of character codes.                                       *)

Newline == <<10>>

IsSpace(c) == c \in {9, 10, 11, 12, 13, 32}

\* String.prototype.trim
JsTrim(t) ==
    LET kept == {i \in 1..Len(t) : ~IsSpace(t[i])}
    IN  IF kept = {} THEN <<>>
        ELSE SubSeq(t, CHOOSE i \in kept : \A j \in kept : i <= j,
                       CHOOSE i \in kept : \A j \in kept : i >= j)

\* Array.prototype.join
Join(lines, sep) ==
    LET Step(out, i) == IF i = 1 THEN lines[i] ELSE out \o sep \o lines[i]
    IN  Loop(Step, <<>>, 1, Len(lines))

\* the lines of a text, cut at each newline
SplitLines(t) ==
    LET Step(st, i) ==
            IF t[i] = 10
            THEN [lines |-> Append(st.lines, st.cur), cur |-> <<>>]
            ELSE [st EXCEPT !.cur = Append(st.cur, t[i])]
        end == Loop(Step, [lines |-> <<>>, cur |-> <<>>], 1, Len(t))
    IN  Append(end.lines, end.cur)

\* the filter callback of generateMarkdown, with and without the test of
\* excluded ("true", "false", or "undefined" for a paragraph made without
\* the field)
IsReviewed_IgnoresExcluded(paragraph) == paragraph.status = "reviewed"

IsReviewed(paragraph) ==
    paragraph.status = "reviewed" /\ paragraph.excluded # "true"

reviewedParagraphs(chapter) == SelectSeq(chapter.paragraphs, IsReviewed)

RECURSIVE ParagraphLines(_)
ParagraphLines(paragraphs) ==
    IF paragraphs = <<>> THEN <<>>
    ELSE <<Head(paragraphs).translated, <<>>>> \o ParagraphLines(Tail(paragraphs))

RECURSIVE ChapterLines(_)
ChapterLines(chapters) ==
    IF chapters = <<>> THEN <<>>
    ELSE <<<<35, 35, 32>> \o Head(chapters).title, <<>>>>
         \o ParagraphLines(reviewedParagraphs(Head(chapters)))
         \o ChapterLines(Tail(chapters))

generateMarkdown(project) ==
    LET lines == <<<<35, 32>> \o project.title>>
                 \o (IF project.author # <<>>
                     THEN <<<<42>> \o project.author \o <<42>>>> ELSE <<>>)
                 \o <<<<>>>>
                 \o ChapterLines(project.chapters)
    IN  JsTrim(Join(lines, Newline))

\* "Bk", "Al", "A", "B"
ProjectTitle == <<66, 107>>
ProjectAuthor == <<65, 108>>
ChapterTitles == <<<<65>>, <<66>>>>

\* paragraphs per chapter
ChapterSizes == <<2, 1>>

\* what the translation service returns for paragraph p of chapter c: "T11"
Translation(c, p) == <<84, 48 + c, 48 + p>>

\* what the user types into the textarea: "U11 ", or nothing at all
Typed(c, p) == {<<85, 48 + c, 48 + p, 32>>, <<>>}

\* createParagraph of the text import (no excluded field) and of the epub
\* import (excluded: false)
createParagraph(excluded) ==
    [translated |-> <<>>, status |-> "pending", excluded |-> excluded]

Project(chapters) ==
    [title |-> ProjectTitle, author |-> ProjectAuthor, chapters |-> chapters]

InitEditor ==
    /\ key = <<>>
    /\ data = <<>>
    /\ settings = NoSettings
    /\ device_id = <<>>
    /\ dat_file_contents = <<>>
    /\ derived = NoKey
    /\ encrypted_content = <<>>
    /\ content = NoContent
    /\ book = NoBook
    /\ batch = NoBatch
    /\ app = NoApp
    /\ title = NoTitle
    /\ server = NoServer
    /\ \E excluded \in {"undefined", "false"} :
          editor = [chapters |->
                        [c \in 1..Len(ChapterSizes) |->
                            [title |-> ChapterTitles[c],
                             paragraphs |-> [p \in 1..ChapterSizes[c] |->
                                                createParagraph(excluded)]]],
                    download |-> FALSE,
                    markdown |-> <<>>]

\* updateParagraph(chapterId, paragraphId, updates); the project changes,
\* so a download made before is no longer the export of the project
updateParagraph(c, p, updated) ==
    editor' = [chapters |-> [editor.chapters EXCEPT ![c].paragraphs[p] = updated],
               download |-> FALSE,
               markdown |-> <<>>]

OthersIdle ==
    UNCHANGED <<key, data, settings, device_id, dat_file_contents, derived,
                encrypted_content, content, title, server,
                book, batch, app>>

\* handleTranslate, when the translation arrives
handleTranslate ==
    /\ \E c \in 1..Len(editor.chapters) :
          \E p \in 1..Len(editor.chapters[c].paragraphs) :
             updateParagraph(c, p,
                 [editor.chapters[c].paragraphs[p] EXCEPT
                     !.translated = Translation(c, p),
                     !.status = "translated"])
    /\ OthersIdle

\* handleMarkReviewed; the button is there for a paragraph that has a
\* translation and is not reviewed yet
handleMarkReviewed ==
    /\ \E c \in 1..Len(editor.chapters) :
          \E p \in 1..Len(editor.chapters[c].paragraphs) :
             /\ editor.chapters[c].paragraphs[p].translated # <<>>
             /\ editor.chapters[c].paragraphs[p].status # "reviewed"
             /\ updateParagraph(c, p,
                    [editor.chapters[c].paragraphs[p] EXCEPT
                        !.status = "reviewed"])
    /\ OthersIdle

\* handleTextChange; the textarea is there for a paragraph that has a
\* translation
handleTextChange ==
    /\ \E c \in 1..Len(editor.chapters) :
          \E p \in 1..Len(editor.chapters[c].paragraphs) :
             /\ editor.chapters[c].paragraphs[p].translated # <<>>
             /\ \E text \in Typed(c, p) :
                   updateParagraph(c, p,
                       [editor.chapters[c].paragraphs[p] EXCEPT
                           !.translated = text])
    /\ OthersIdle

\* handleToggleExcluded: excluded becomes !paragraph.excluded
handleToggleExcluded ==
    /\ \E c \in 1..Len(editor.chapters) :
          \E p \in 1..Len(editor.chapters[c].paragraphs) :
             updateParagraph(c, p,
                 [editor.chapters[c].paragraphs[p] EXCEPT
                     !.excluded = IF @ = "true" THEN "false" ELSE "true"])
    /\ OthersIdle

\* downloadMarkdown(project)
downloadMarkdown ==
    /\ ~editor.download
    /\ editor' = [editor EXCEPT
                     !.download = TRUE,
                     !.markdown = generateMarkdown(Project(editor.chapters))]
    /\ OthersIdle

NextEditor ==
    \/ handleTranslate
    \/ handleMarkReviewed
    \/ handleTextChange
    \/ handleToggleExcluded
    \/ downloadMarkdown

SpecEditor == InitEditor /\ [][NextEditor]_vars

---------------------------------------------------------------------------
(* The server: index.ts, route /api/fetch-gutenberg                        *)

MaxRequests == 2

EndsWith(t, suffix) ==
    /\ Len(t) >= Len(suffix)
    /\ SubSeq(t, Len(t) - Len(suffix) + 1, Len(t)) = suffix

StartsWith(t, prefix) ==
    Len(t) >= Len(prefix) /\ SubSeq(t, 1, Len(prefix)) = prefix

IsAlpha(c) == (c >= 65 /\ c <= 90) \/ (c >= 97 /\ c <= 122)

ToLower(t) == [i \in 1..Len(t) |-> IF t[i] >= 65 /\ t[i] <= 90
                                   THEN t[i] + 32 ELSE t[i]]

\* the first position of t, from position from on, that holds a character
\* of stops; Len(t) + 1 if there is none
FirstOf(t, from, stops) ==
    LET at == {i \in from..Len(t) : t[i] \in stops}
    IN  IF at = {} THEN Len(t) + 1 ELSE CHOOSE i \in at : \A j \in at : i <= j

LastOf(t, stops) ==
    LET at == {i \in 1..Len(t) : t[i] \in stops}
    IN  IF at = {} THEN 0 ELSE CHOOSE i \in at : \A j \in at : i >= j

\* "http", "https"
SpecialSchemes == {<<104, 116, 116, 112>>, <<104, 116, 116, 112, 115>>}

\* new URL(s) without a base: a scheme, then for "//" an authority of
\* userinfo@host:port up to the first "/", "?" or "#".  ok is FALSE where
\* the constructor throws: no scheme, or no host in an http(s) URL.
ParseUrl(t) ==
    LET colon == FirstOf(t, 1, {58})
        scheme == ToLower(SubSeq(t, 1, colon - 1))
        rest == SubSeq(t, colon + 1, Len(t))
        slashes == FirstOf(rest \o <<0>>, 1, {c \in 0..255 : c \notin {47, 92}})
        hasAuthority == IF scheme \in SpecialSchemes THEN TRUE
                        ELSE StartsWith(rest, <<47, 47>>)
        skipped == IF scheme \in SpecialSchemes THEN slashes - 1
                   ELSE IF hasAuthority THEN 2 ELSE 0
        after == SubSeq(rest, skipped + 1, Len(rest))
        authority == SubSeq(after, 1, FirstOf(after, 1, {47, 63, 35, 92}) - 1)
        hostport == SubSeq(authority, LastOf(authority, {64}) + 1, Len(authority))
        host == SubSeq(hostport, 1, FirstOf(hostport, 1, {58}) - 1)
    IN  IF \/ colon > Len(t)
           \/ colon = 1
           \/ ~IsAlpha(t[1])
           \/ \E i \in 1..(colon - 1) :
                 ~(IsAlpha(t[i]) \/ (t[i] >= 48 /\ t[i] <= 57)
                   \/ t[i] \in {43, 45, 46})
        THEN [ok |-> FALSE, hostname |-> <<>>]
        ELSE IF ~hasAuthority THEN [ok |-> TRUE, hostname |-> <<>>]
        ELSE IF scheme \in SpecialSchemes /\ host = <<>>
        THEN [ok |-> FALSE, hostname |-> <<>>]
        ELSE [ok |-> TRUE, hostname |-> ToLower(host)]

\* "gutenberg.org"
GutenbergOrg ==
    <<103, 117, 116, 101, 110, 98, 101, 114, 103, 46, 111, 114, 103>>

\* the test of line 21
HostAccepted(hostname) == EndsWith(hostname, GutenbergOrg)

\* texts of the url parameter
Urls ==
    {\* https://gutenberg.org/files/11/11-0.txt
     <<104, 116, 116, 112, 115, 58, 47, 47, 103, 117, 116, 101, 110, 98,
     101, 114, 103, 46, 111, 114, 103, 47, 102, 105, 108, 101, 115, 47,
     49, 49, 47, 49, 49, 45, 48, 46, 116, 120, 116>>,
     \* https://WWW.gutenberg.org/ebooks/11.txt.utf-8
     <<104, 116, 116, 112, 115, 58, 47, 47, 87, 87, 87, 46, 103, 117, 116,
     101, 110, 98, 101, 114, 103, 46, 111, 114, 103, 47, 101, 98, 111,
     111, 107, 115, 47, 49, 49, 46, 116, 120, 116, 46, 117, 116, 102, 45,
     56>>,
     \* http://aleph.gutenberg.org:80/1/1/11.txt
     <<104, 116, 116, 112, 58, 47, 47, 97, 108, 101, 112, 104, 46, 103, 117,
     116, 101, 110, 98, 101, 114, 103, 46, 111, 114, 103, 58, 56, 48, 47,
     49, 47, 49, 47, 49, 49, 46, 116, 120, 116>>,
     \* https://evilgutenberg.org/x
     <<104, 116, 116, 112, 115, 58, 47, 47, 101, 118, 105, 108, 103, 117,
     116, 101, 110, 98, 101, 114, 103, 46, 111, 114, 103, 47, 120>>,
     \* https://gutenberg.org@evil.example/x
     <<104, 116, 116, 112, 115, 58, 47, 47, 103, 117, 116, 101, 110, 98,
     101, 114, 103, 46, 111, 114, 103, 64, 101, 118, 105, 108, 46, 101,
     120, 97, 109, 112, 108, 101, 47, 120>>,
     \* https://gutenberg.org.evil.example/
     <<104, 116, 116, 112, 115, 58, 47, 47, 103, 117, 116, 101, 110, 98,
     101, 114, 103, 46, 111, 114, 103, 46, 101, 118, 105, 108, 46, 101,
     120, 97, 109, 112, 108, 101, 47>>,
     \* https://evil.example/gutenberg.org
     <<104, 116, 116, 112, 115, 58, 47, 47, 101, 118, 105, 108, 46, 101,
     120, 97, 109, 112, 108, 101, 47, 103, 117, 116, 101, 110, 98, 101,
     114, 103, 46, 111, 114, 103>>,
     \* /files/gutenberg.org
     <<47, 102, 105, 108, 101, 115, 47, 103, 117, 116, 101, 110, 98, 101,
     114, 103, 46, 111, 114, 103>>,
     \* https:///gutenberg.org
     <<104, 116, 116, 112, 115, 58, 47, 47, 47, 103, 117, 116, 101, 110, 98,
     101, 114, 103, 46, 111, 114, 103>>}

\* the url parameter of a request: absent (null), empty, or a text
UrlParams ==
    {[null |-> TRUE, s |-> <<>>], [null |-> FALSE, s |-> <<>>]}
    \cup {[null |-> FALSE, s |-> u] : u \in Urls}

\* what the outbound fetch does: a response that is ok, one that is not,
\* or an exception
FetchResults == {"ok", "not ok", "throws"}

\* async GET(req): the status of the response and whether fetch was called
GET(gutenbergUrl, fetchResult) ==
    IF gutenbergUrl.null \/ gutenbergUrl.s = <<>>
    THEN [status |-> 400, fetches |-> FALSE]
    ELSE IF ~ParseUrl(gutenbergUrl.s).ok
    THEN [status |-> 400, fetches |-> FALSE]
    ELSE IF ~HostAccepted(ParseUrl(gutenbergUrl.s).hostname)
    THEN [status |-> 400, fetches |-> FALSE]
    ELSE [status |-> IF fetchResult = "ok" THEN 200 ELSE 502,
          fetches |-> TRUE]

InitServer ==
    /\ key = <<>>
    /\ data = <<>>
    /\ settings = NoSettings
    /\ device_id = <<>>
    /\ dat_file_contents = <<>>
    /\ derived = NoKey
    /\ encrypted_content = <<>>
    /\ content = NoContent
    /\ book = NoBook
    /\ batch = NoBatch
    /\ app = NoApp
    /\ title = NoTitle
    /\ editor = NoEditor
    /\ server = NoServer

FetchGutenberg ==
    /\ server.served < MaxRequests
    /\ \E gutenbergUrl \in UrlParams, fetchResult \in FetchResults :
          server' = [served |-> server.served + 1,
                     gutenbergUrl |-> gutenbergUrl,
                     status |-> GET(gutenbergUrl, fetchResult).status,
                     fetched |-> IF GET(gutenbergUrl, fetchResult).fetches
                                 THEN Append(server.fetched, gutenbergUrl.s)
                                 ELSE server.fetched]
    /\ UNCHANGED <<key, data, settings, device_id, dat_file_contents, derived,
                   encrypted_content, content, title, editor,
                book, batch, app>>

NextServer == FetchGutenberg

SpecServer == InitServer /\ [][NextServer]_vars

---------------------------------------------------------------------------
(* The import of a text file: parseTextFile, in its two copies (the text   *)
(* parser with stripGutenbergBoilerplate, and the copy kept at the end of  *)
(* lib/storage.ts), and the paragraph grouping applied by parseBookFile.   *)

\* String.prototype.toUpperCase, for the ASCII texts imported here
ToUpper(t) == [i \in 1..Len(t) |-> IF t[i] >= 97 /\ t[i] <= 122
                                   THEN t[i] - 32 ELSE t[i]]

\* String.prototype.includes
Includes(t, part) ==
    \E i \in 1..(Len(t) - Len(part) + 1) : SubSeq(t, i, i + Len(part) - 1) = part

\* the position after the blanks (\s*) that start at position i of t
AfterSpaces(t, i) ==
    LET other == {j \in i..Len(t) : ~IsSpace(t[j])}
    IN  IF other = {} THEN Len(t) + 1 ELSE CHOOSE j \in other : \A k \in other : j <= k

\* /[ivxlcdm]/i
IsRoman(c) == c \in {105, 118, 120, 108, 99, 100, 109, 73, 86, 88, 76, 67, 68, 77}

\* text.split(/\r?\n/)
SplitNewlines(t) ==
    LET ends == {i \in 1..Len(t) : t[i] = 10} \cup {Len(t) + 1}
        End(k) == CHOOSE e \in ends : Cardinality({x \in ends : x < e}) = k - 1
        Start(k) == IF k = 1 THEN 1 ELSE End(k - 1) + 1
        Stop(k) == IF End(k) <= Len(t) /\ End(k) > 1 /\ t[End(k) - 1] = 13
                   THEN End(k) - 2 ELSE End(k) - 1
    IN  [k \in 1..Cardinality(ends) |-> SubSeq(t, Start(k), Stop(k))]

\* the position after a match, at position i of t, of
\* /\*{3}\s*<which> OF (?:THE |THIS )?PROJECT GUTENBERG EBOOK[^*]*\*{3}/i,
\* or 0 when there is no match at i
MarkerAt(t, i, which) ==
    LET low == ToLower(t)
        Stars(j) == j + 2 <= Len(t) /\ SubSeq(t, j, j + 2) = <<42, 42, 42>>
        Has(j, w) == SubSeq(low, j, Min(j + Len(w) - 1, Len(t))) = w
        \* PROJECT GUTENBERG EBOOK[^*]*\*{3} at position c
        Rest(c) ==
            CHOOSE end \in {IF Stars(e) THEN e + 3 ELSE 0 :
                               e \in {FirstOf(t, c + 23, {42})}} :
                Has(c, <<112, 114, 111, 106, 101, 99, 116, 32, 103, 117, 116, 101, 110, 98, 101, 114, 103, 32, 101, 98, 111, 111, 107>>) \/ end = 0
        From(b) ==
            IF Has(b, <<116, 104, 101, 32>>) THEN Rest(b + 4)
            ELSE IF Has(b, <<116, 104, 105, 115, 32>>) THEN Rest(b + 5)
            ELSE Rest(b)
    IN  IF ~Stars(i) THEN 0
        ELSE CHOOSE end \in {IF Has(a, which) THEN From(a + Len(which)) ELSE 0 :
                                a \in {AfterSpaces(t, i + 3)}} : TRUE

\* content.match(pattern): index and end of the first match, 0 if none
Match(t, which) ==
    LET found == {m \in {[index |-> i, end |-> MarkerAt(t, i, which)] :
                            i \in {j \in 1..Len(t) : t[j] = 42}} : m.end # 0}
    IN  IF found = {} THEN [index |-> 0, end |-> 0]
        ELSE CHOOSE m \in found : \A n \in found : m.index <= n.index

stripGutenbergBoilerplate(text) ==
    LET AfterStart(startMatch) ==
            IF startMatch.index # 0
            THEN SubSeq(text, startMatch.end, Len(text)) ELSE text
        BeforeEnd(body, endMatch) ==
            IF endMatch.index # 0
            THEN SubSeq(body, 1, endMatch.index - 1) ELSE body
    IN  CHOOSE out \in
            {JsTrim(cut) :
                cut \in UNION {{BeforeEnd(body, endMatch) :
                                   endMatch \in {Match(body, <<101, 110, 100, 32, 111, 102, 32>>)}} :
                               body \in {AfterStart(startMatch) :
                                            startMatch \in {Match(text, <<115, 116, 97, 114, 116, 32, 111, 102, 32>>)}}}} :
            TRUE

\* /^(\d+|[IVXLCDM]+)\.\s*$/ for a trimmed line
IsBareNumber(trimmed) ==
    /\ Len(trimmed) >= 2
    /\ trimmed[Len(trimmed)] = 46
    /\ \/ \A i \in 1..(Len(trimmed) - 1) : IsDigit(trimmed[i])
       \/ \A i \in 1..(Len(trimmed) - 1) :
             trimmed[i] \in {73, 86, 88, 76, 67, 68, 77}

isChapterHeading(line) ==
    LET trimmed == JsTrim(line)
        low == ToLower(trimmed)
        sections == {<<99, 104, 97, 112, 116, 101, 114>>, <<112, 97, 114, 116>>, <<98, 111, 111, 107>>, <<118, 111, 108, 117, 109, 101>>, <<108, 101, 116, 116, 101, 114>>,
                     <<97, 99, 116>>, <<115, 99, 101, 110, 101>>, <<115, 101, 99, 116, 105, 111, 110>>, <<99, 97, 110, 116, 111>>}
        numbers == {<<111, 110, 101>>, <<116, 119, 111>>, <<116, 104, 114, 101, 101>>, <<102, 111, 117, 114>>, <<102, 105, 118, 101>>, <<115, 105, 120>>,
                    <<115, 101, 118, 101, 110>>, <<101, 105, 103, 104, 116>>, <<110, 105, 110, 101>>, <<116, 101, 110>>, <<101, 108, 101, 118, 101, 110>>,
                    <<116, 119, 101, 108, 118, 101>>, <<116, 104, 105, 114, 116, 101, 101, 110>>, <<102, 111, 117, 114, 116, 101, 101, 110>>, <<102, 105, 102, 116, 101, 101, 110>>,
                    <<115, 105, 120, 116, 101, 101, 110>>, <<115, 101, 118, 101, 110, 116, 101, 101, 110>>, <<101, 105, 103, 104, 116, 101, 101, 110>>, <<110, 105, 110, 101, 116, 101, 101, 110>>,
                    <<116, 119, 101, 110, 116, 121>>}
        standalones == {<<112, 114, 101, 102, 97, 99, 101>>, <<112, 114, 111, 108, 111, 103, 117, 101>>, <<101, 112, 105, 108, 111, 103, 117, 101>>,
                        <<105, 110, 116, 114, 111, 100, 117, 99, 116, 105, 111, 110>>, <<99, 111, 110, 99, 108, 117, 115, 105, 111, 110>>, <<102, 111, 114, 101, 119, 111, 114, 100>>,
                        <<97, 102, 116, 101, 114, 119, 111, 114, 100>>, <<100, 101, 100, 105, 99, 97, 116, 105, 111, 110>>}
        Numbered(w) ==
            LET n == AfterSpaces(low, Len(w) + 1)
                rest == SubSeq(low, n, Len(low))
            IN  /\ StartsWith(low, w)
                /\ n > Len(w) + 1
                /\ n <= Len(low)
                /\ \/ IsDigit(low[n])
                   \/ IsRoman(low[n])
                   \/ \E word \in numbers : StartsWith(rest, word)
    IN  IF Len(trimmed) = 0 \/ JsLength(trimmed) > 80 THEN FALSE
        ELSE IF \E w \in sections : Numbered(w) THEN TRUE
        ELSE IF low \in standalones THEN TRUE
        ELSE IsBareNumber(trimmed) /\ JsLength(trimmed) < 20

isAllCapsChapterHeading(line) ==
    LET trimmed == JsTrim(line)
        excluded == {<<84, 72, 69, 32, 69, 78, 68>>, <<70, 73, 78>>, <<70, 73, 78, 73, 83>>, <<80, 82, 79, 74, 69, 67, 84, 32, 71, 85, 84, 69, 78, 66, 69, 82, 71>>,
                     <<67, 79, 80, 89, 82, 73, 71, 72, 84>>, <<67, 79, 78, 84, 69, 78, 84, 83>>, <<84, 65, 66, 76, 69, 32, 79, 70, 32, 67, 79, 78, 84, 69, 78, 84, 83>>}
        allowed == {<<80, 82, 69, 70, 65, 67, 69>>, <<80, 82, 79, 76, 79, 71, 85, 69>>, <<69, 80, 73, 76, 79, 71, 85, 69>>, <<73, 78, 84, 82, 79, 68, 85, 67, 84, 73, 79, 78>>,
                    <<67, 79, 78, 67, 76, 85, 83, 73, 79, 78>>, <<70, 79, 82, 69, 87, 79, 82, 68>>, <<65, 70, 84, 69, 82, 87, 79, 82, 68>>, <<68, 69, 68, 73, 67, 65, 84, 73, 79, 78>>}
    IN  IF trimmed # ToUpper(trimmed)
           \/ ~\E i \in 1..Len(trimmed) : trimmed[i] >= 65 /\ trimmed[i] <= 90
        THEN FALSE
        ELSE IF JsLength(trimmed) < 3 \/ JsLength(trimmed) > 60 THEN FALSE
        ELSE IF \E e \in excluded : Includes(trimmed, e) THEN FALSE
        ELSE IF ~\E i \in 1..Len(trimmed) : IsSpace(trimmed[i])
        THEN trimmed \in allowed
        ELSE trimmed[Len(trimmed)] \notin {33, 63}

\* the heading test of the copy in lib/storage.ts: chapterPattern, or a
\* short line in capitals
chapterPattern(trimmed) ==
    LET low == ToLower(trimmed)
        Numbered(w) ==
            LET n == AfterSpaces(low, Len(w) + 1)
            IN  /\ StartsWith(low, w)
                /\ n > Len(w) + 1
                /\ n <= Len(low)
                /\ (IsDigit(low[n]) \/ IsRoman(low[n]))
        dot == FirstOf(low, 1, {46})
    IN  \/ Numbered(<<99, 104, 97, 112, 116, 101, 114>>)
        \/ Numbered(<<112, 97, 114, 116>>)
        \/ /\ dot > 1
           /\ dot <= Len(low)
           /\ \/ \A i \in 1..(dot - 1) : IsDigit(low[i])
              \/ \A i \in 1..(dot - 1) : IsRoman(low[i])

\* which lines start a chapter, in the text parser and in lib/storage.ts
IsHeading(trimmed, lib) ==
    IF lib = "storage"
    THEN \/ chapterPattern(trimmed)
         \/ /\ JsLength(trimmed) > 0
            /\ JsLength(trimmed) < 60
            /\ trimmed = ToUpper(trimmed)
            /\ \E i \in 1..Len(trimmed) : trimmed[i] >= 65 /\ trimmed[i] <= 90
    ELSE isChapterHeading(trimmed) \/ isAllCapsChapterHeading(trimmed)

\* "Beginning"
Beginning == <<66, 101, 103, 105, 110, 110, 105, 110, 103>>

\* createParagraph(id, text): id stands for `p-${id}`
createParagraphOf(id, text, lib) ==
    [id |-> id, original |-> text, translated |-> <<>>, status |-> "pending",
     excluded |-> IF lib = "storage" THEN "undefined" ELSE "false"]

\* currentChapter.paragraphs.push(createParagraph(paragraphId++,
\* currentParagraph.trim())); currentParagraph = ""
pushParagraph(st, lib) ==
    [st EXCEPT
        !.chapters[st.currentChapter].paragraphs =
            Append(@, createParagraphOf(st.paragraphId,
                                        JsTrim(st.currentParagraph), lib)),
        !.paragraphId = @ + 1,
        !.currentParagraph = <<>>]

\* "Save current paragraph if exists", at a heading (and the same with the
\* paragraph left open)
SaveAtHeading_Never(st, lib) == st

SaveAtHeading(st, lib) ==
    IF JsTrim(st.currentParagraph) # <<>> /\ st.currentChapter # 0
    THEN pushParagraph(st, lib) ELSE st

\* the chapters parseTextFile returns; a chapter's id and number are both
\* chapterNumber
parseTextFile(text, lib) ==
    LET lines == SplitNewlines(IF lib = "storage" THEN text
                               ELSE stripGutenbergBoilerplate(text))
        NewChapter(st, heading) ==
            [st EXCEPT
                !.chapterNumber = @ + 1,
                !.currentChapter = Len(st.chapters) + 1,
                !.chapters = Append(@, [id |-> st.chapterNumber + 1,
                                        title |-> heading,
                                        number |-> st.chapterNumber + 1,
                                        paragraphs |-> <<>>])]
        Step(st, i) ==
            LET trimmed == JsTrim(lines[i])
                open == IF st.currentChapter = 0 THEN NewChapter(st, Beginning)
                        ELSE st
            IN  IF IsHeading(trimmed, lib)
                THEN NewChapter(SaveAtHeading(st, lib), trimmed)
                ELSE IF trimmed = <<>>
                THEN IF JsTrim(open.currentParagraph) # <<>>
                     THEN pushParagraph(open, lib) ELSE open
                ELSE [open EXCEPT
                        !.currentParagraph =
                            @ \o (IF @ # <<>> THEN <<32>> ELSE <<>>) \o trimmed]
        end == Loop(Step, [chapters |-> <<>>, currentChapter |-> 0,
                           currentParagraph |-> <<>>, chapterNumber |-> 0,
                           paragraphId |-> 0], 1, Len(lines))
        last == IF JsTrim(end.currentParagraph) # <<>> /\ end.currentChapter # 0
                THEN pushParagraph(end, lib) ELSE end
    IN  SelectSeq(last.chapters, LAMBDA ch : Len(ch.paragraphs) > 0)

MIN_GROUP_LENGTH == 250

\* "\n\n"
BlankLine == <<10, 10>>

\* groupParagraphs, and the same flushing only above minLength
groupParagraphs_Above(paragraphs, minLength) ==
    LET Step(st, i) ==
            LET buffer == Append(st.buffer, paragraphs[i].original)
                bufferedLength == st.bufferedLength + JsLength(paragraphs[i].original)
            IN  IF bufferedLength > minLength
                THEN [grouped |-> Append(st.grouped,
                                         createParagraphOf(st.id, Join(buffer, BlankLine), "text")),
                      buffer |-> <<>>, bufferedLength |-> 0, id |-> st.id + 1]
                ELSE [st EXCEPT !.buffer = buffer, !.bufferedLength = bufferedLength]
        end == Loop(Step, [grouped |-> <<>>, buffer |-> <<>>,
                           bufferedLength |-> 0, id |-> 0], 1, Len(paragraphs))
    IN  IF Len(end.buffer) > 0
        THEN Append(end.grouped, createParagraphOf(end.id, Join(end.buffer, BlankLine), "text"))
        ELSE end.grouped

groupParagraphs(paragraphs, minLength) ==
    LET Step(st, i) ==
            LET buffer == Append(st.buffer, paragraphs[i].original)
                bufferedLength == st.bufferedLength + JsLength(paragraphs[i].original)
            IN  IF bufferedLength >= minLength
                THEN [grouped |-> Append(st.grouped,
                                         createParagraphOf(st.id, Join(buffer, BlankLine), "text")),
                      buffer |-> <<>>, bufferedLength |-> 0, id |-> st.id + 1]
                ELSE [st EXCEPT !.buffer = buffer, !.bufferedLength = bufferedLength]
        end == Loop(Step, [grouped |-> <<>>, buffer |-> <<>>,
                           bufferedLength |-> 0, id |-> 0], 1, Len(paragraphs))
    IN  IF Len(end.buffer) > 0
        THEN Append(end.grouped, createParagraphOf(end.id, Join(end.buffer, BlankLine), "text"))
        ELSE end.grouped

applyParagraphGrouping(chapters, minLength) ==
    [c \in 1..Len(chapters) |->
        [chapters[c] EXCEPT !.paragraphs = groupParagraphs(@, minLength)]]

MaxLines == 4

MaxParagraphs == 4

\* the kinds of line the imported texts are made of
Lines == {<<>>, <<32, 32, 73, 116, 32, 119, 97, 115, 32, 108, 97, 116, 101, 46, 32>>, <<67, 104, 97, 112, 116, 101, 114, 32, 49>>, <<80, 82, 69, 70, 65, 67, 69>>, <<84, 72, 69, 32, 69, 78, 68>>,
          <<50, 46, 32, 84, 104, 101, 110>>}

\* a line of n letters, no heading in either copy
LongLine(n) == [i \in 1..n |-> 97 + (i % 26)]

\* a file with the Gutenberg markers around its text, and one with CR LF
\* line ends
GutenbergFile ==
    <<76, 105, 99, 101, 110, 115, 101, 10, 42, 42, 42, 32, 83, 84, 65, 82, 84, 32, 79, 70, 32, 84, 72, 69, 32, 80, 82, 79, 74, 69, 67, 84, 32, 71, 85, 84, 69, 78, 66, 69, 82, 71, 32, 69, 66, 79, 79, 75, 32, 69, 77, 77, 65, 32, 42, 42, 42, 10, 10, 69, 77, 77, 65, 10, 10, 86, 79, 76, 85, 77, 69, 32, 73, 10, 10, 67, 104, 97, 112, 116, 101, 114, 32, 49, 10, 69, 109, 109, 97, 32, 87, 111, 111, 100, 104, 111, 117, 115, 101, 44, 10, 104, 97, 110, 100, 115, 111, 109, 101, 46, 10, 10, 42, 42, 42, 32, 69, 78, 68, 32, 79, 70, 32, 84, 72, 69, 32, 80, 82, 79, 74, 69, 67, 84, 32, 71, 85, 84, 69, 78, 66, 69, 82, 71, 32, 69, 66, 79, 79, 75, 32, 69, 77, 77, 65, 32, 42, 42, 42, 10, 77, 111, 114, 101, 32, 108, 105, 99, 101, 110, 115, 101>>

CrLfFile == <<70, 105, 114, 115, 116, 32, 108, 105, 110, 101, 13, 10, 115, 101, 99, 111, 110, 100, 32, 108, 105, 110, 101, 13, 10, 13, 10, 73, 110, 116, 114, 111, 100, 117, 99, 116, 105, 111, 110, 13, 10, 84, 104, 105, 114, 100, 46, 13, 10>>

\* the texts a user imports: up to MaxLines lines, up to MaxParagraphs
\* paragraphs of one long line each, and the two files above
Texts ==
    {Join(lines, Newline) :
        lines \in UNION {[1..n -> Lines] : n \in 0..MaxLines}}
    \cup {Join([i \in 1..Len(sizes) |-> LongLine(sizes[i])], BlankLine) :
            sizes \in UNION {[1..n -> {50, 125, 250}] : n \in 1..MaxParagraphs}}
    \cup {GutenbergFile, CrLfFile}

InitImport ==
    /\ key = <<>>
    /\ data = <<>>
    /\ settings = NoSettings
    /\ device_id = <<>>
    /\ dat_file_contents = <<>>
    /\ derived = NoKey
    /\ encrypted_content = <<>>
    /\ content = NoContent
    /\ title = NoTitle
    /\ editor = NoEditor
    /\ server = NoServer
    /\ batch = NoBatch
    /\ app = NoApp
    /\ \E text \in Texts, lib \in {"text", "storage"} :
          book = [NoBook EXCEPT !.pc = "file", !.lib = lib, !.text = text]

ImportIdle ==
    UNCHANGED <<key, data, settings, device_id, dat_file_contents, derived,
                encrypted_content, content, title, editor, server, batch, app>>

\* project = parseTextFile(text, title, author, translationPrompt)
ParseTextFile ==
    /\ book.pc = "file"
    /\ book' = [book EXCEPT !.pc = "parsed",
                            !.parsed = parseTextFile(book.text, book.lib),
                            !.chapters = parseTextFile(book.text, book.lib)]
    /\ ImportIdle

\* parseBookFile: return applyParagraphGrouping(project, MIN_GROUP_LENGTH)
ApplyParagraphGrouping ==
    /\ book.pc = "parsed"
    /\ book.lib = "text"
    /\ book' = [book EXCEPT
                  !.pc = "grouped",
                  !.chapters = applyParagraphGrouping(book.parsed, MIN_GROUP_LENGTH)]
    /\ ImportIdle

NextImport == ParseTextFile \/ ApplyParagraphGrouping

SpecImport == InitImport /\ [][NextImport]_vars

---------------------------------------------------------------------------
(* lib/gemini.ts: one call of translateBatch.  The call is cut at its      *)
(* awaits: the translation of one paragraph, and the delay before the next.*)

MaxBatch == 3

\* the ids of the paragraphs handed to translateBatch: 0 stands for p-0;
\* the paragraphs of a project are numbered from p-0 in every chapter
ParagraphIds == {0, 1}

\* what translateParagraph returns for the i-th paragraph (0-based): result.text,
\* "T0", or "" for a response without text
Translations(i) == {<<84, 48 + i>>, <<>>}

\* results.set(key, value)
MapSet(map, k, v) ==
    [x \in DOMAIN map \cup {k} |-> IF x = k THEN v ELSE map[x]]

\* translateBatch(paragraphs, prompt, onProgress) up to its first await:
\* at the translation of paragraphs[0], or returned if there is none
InitBatch ==
    /\ key = <<>>
    /\ data = <<>>
    /\ settings = NoSettings
    /\ device_id = <<>>
    /\ dat_file_contents = <<>>
    /\ derived = NoKey
    /\ encrypted_content = <<>>
    /\ content = NoContent
    /\ title = NoTitle
    /\ editor = NoEditor
    /\ server = NoServer
    /\ book = NoBook
    /\ app = NoApp
    /\ \E n \in 0..MaxBatch :
          \E ids \in [1..n -> ParagraphIds] :
             batch = [pc |-> IF n = 0 THEN "returned" ELSE "translateParagraph",
                      paragraphs |-> [k \in 1..n |-> [id |-> ids[k]]],
                      i |-> 0,
                      results |-> <<>>,
                      called |-> IF n = 0 THEN <<>> ELSE <<0>>,
                      thrown |-> {},
                      onProgress |-> <<>>]

BatchIdle ==
    UNCHANGED <<key, data, settings, device_id, dat_file_contents, derived,
                encrypted_content, content, title, editor, server, book, app>>

\* lines 58-69 for the value recorded for paragraphs[i]: results.set,
\* onProgress, and the delay or the return
Record(value, threw) ==
    [batch EXCEPT
        !.results = MapSet(@, batch.paragraphs[batch.i + 1].id, value),
        !.thrown = IF threw THEN @ \cup {batch.i} ELSE @,
        !.onProgress = Append(@, <<batch.i + 1, Len(batch.paragraphs)>>),
        !.pc = IF batch.i < Len(batch.paragraphs) - 1 THEN "setTimeout"
               ELSE "returned"]

\* await translateParagraph(para, prompt) gives a translation
TranslateResolves ==
    /\ batch.pc = "translateParagraph"
    /\ \E translation \in Translations(batch.i) :
          batch' = Record(translation, FALSE)
    /\ BatchIdle

\* await translateParagraph(para, prompt) throws
TranslateThrows ==
    /\ batch.pc = "translateParagraph"
    /\ batch' = Record(<<>>, TRUE)
    /\ BatchIdle

\* the 100 ms are over: i++, and the next paragraph is sent
DelayElapses ==
    /\ batch.pc = "setTimeout"
    /\ batch' = [batch EXCEPT !.i = @ + 1,
                              !.called = Append(@, batch.i + 1),
                              !.pc = "translateParagraph"]
    /\ BatchIdle

NextBatch == TranslateResolves \/ TranslateThrows \/ DelayElapses

SpecBatch == InitBatch /\ [][NextBatch]_vars

---------------------------------------------------------------------------
(* Progress: projectToSummary of lib/storage.ts and getProjectProgress of  *)
(* components/Editor.tsx                                                   *)

\* if (para.excluded) continue
IsExcluded(para) == para.excluded = "true"

\* projectToSummary(project): the summary the project list shows
projectToSummary(project) ==
    LET Chapter(counts, c) ==
            LET Para(n, p) ==
                    LET para == project.chapters[c].paragraphs[p]
                    IN  IF IsExcluded(para) THEN n
                        ELSE [translated |-> n.translated
                                  + (IF para.status = "translated" THEN 1 ELSE 0),
                              reviewed |-> n.reviewed
                                  + (IF para.status = "reviewed" THEN 1 ELSE 0),
                              total |-> n.total + 1]
            IN  Loop(Para, counts, 1, Len(project.chapters[c].paragraphs))
    IN  [title |-> project.title,
         author |-> project.author,
         progress |-> Loop(Chapter, [translated |-> 0, reviewed |-> 0, total |-> 0],
                           1, Len(project.chapters))]

\* getProjectProgress(project), and the same without the test of excluded
getProjectProgress_CountsExcluded(project) ==
    LET Chapter(counts, c) ==
            LET Para(n, p) ==
                    LET para == project.chapters[c].paragraphs[p]
                    IN  [translated |-> n.translated
                             + (IF para.status = "translated" THEN 1 ELSE 0),
                         reviewed |-> n.reviewed
                             + (IF para.status = "reviewed" THEN 1 ELSE 0),
                         total |-> n.total + 1]
            IN  Loop(Para, counts, 1, Len(project.chapters[c].paragraphs))
    IN  Loop(Chapter, [translated |-> 0, reviewed |-> 0, total |-> 0],
             1, Len(project.chapters))

getProjectProgress(project) ==
    LET Chapter(counts, c) ==
            LET Para(n, p) ==
                    LET para == project.chapters[c].paragraphs[p]
                    IN  IF IsExcluded(para) THEN n
                        ELSE [translated |-> n.translated
                                  + (IF para.status = "translated" THEN 1 ELSE 0),
                              reviewed |-> n.reviewed
                                  + (IF para.status = "reviewed" THEN 1 ELSE 0),
                              total |-> n.total + 1]
            IN  Loop(Para, counts, 1, Len(project.chapters[c].paragraphs))
    IN  Loop(Chapter, [translated |-> 0, reviewed |-> 0, total |-> 0],
             1, Len(project.chapters))

-----------------------------------------------------------------------------
(* The App component with its Editor and the projects in localStorage       *)
-----------------------------------------------------------------------------

\* paragraphs of the one chapter of a project
NumParagraphs == 2

\* projects that ever exist; ids are 1, 2, ... in the order of their import
MaxProjects == 2

\* translations awaited at the same time
MaxInFlight == 2

\* clicks of the user in one run
MaxEvents == 5

\* what parseBookFile makes of a file: a project whose paragraphs are all
\* pending; id stands for proj-<Date.now()>, prompt for translationPrompt
NewProject(id) ==
    [id |-> id, prompt |-> 0,
     paragraphs |-> [p \in 1..NumParagraphs |-> createParagraph("undefined")]]

\* localStorage bookor_projects is a sequence of projects; updatedAt is
\* left out

\* getProjectList(): the summaries, by their ids
getProjectList(storage) == [n \in 1..Len(storage) |-> storage[n].id]

\* getProject(id): projects.find(p => p.id === id) || null
getProject(storage, id) ==
    LET found == {n \in 1..Len(storage) : storage[n].id = id}
    IN  IF found = {} THEN NoProject
        ELSE storage[CHOOSE n \in found : \A m \in found : n <= m]

\* saveProject(project): replaces the project of this id, or pushes it
saveProject(storage, project) ==
    LET found == {n \in 1..Len(storage) : storage[n].id = project.id}
    IN  IF found # {}
        THEN [storage EXCEPT ![CHOOSE n \in found : \A m \in found : n <= m] =
                                 project]
        ELSE Append(storage, project)

\* deleteProject(id): projects.filter(p => p.id !== id)
deleteProject(storage, id) ==
    LET Other(project) == project.id # id
    IN  SelectSeq(storage, Other)

\* the App after its mount effect: one imported project in localStorage,
\* opened again when bookor_current_project names it
InitApp ==
    /\ key = <<>>
    /\ data = <<>>
    /\ settings = NoSettings
    /\ device_id = <<>>
    /\ dat_file_contents = <<>>
    /\ derived = NoKey
    /\ encrypted_content = <<>>
    /\ content = NoContent
    /\ book = NoBook
    /\ batch = NoBatch
    /\ title = NoTitle
    /\ editor = NoEditor
    /\ server = NoServer
    /\ \E lastProjectId \in {0, 1} :
          app = [view |-> IF lastProjectId = 0 THEN "list" ELSE "editor",
                 projects |-> <<1>>,
                 currentProject |-> IF lastProjectId = 0 THEN NoProject
                                    ELSE NewProject(1),
                 storage |-> <<NewProject(1)>>,
                 current |-> lastProjectId,
                 translatingIds |-> {},
                 inflight |-> <<>>,
                 importing |-> 0,
                 nextId |-> 2,
                 deleted |-> {},
                 events |-> 0]

AppIdle ==
    UNCHANGED <<key, data, settings, device_id, dat_file_contents, derived,
                encrypted_content, content, title, editor, server,
                book, batch>>

\* the Editor is rendered: view === "editor" && currentProject
EditorMounted == app.view = "editor" /\ app.currentProject # NoProject

\* the user can still act
UserActs == app.events < MaxEvents

\* handleUpdateProject(project): saveProject, then setCurrentProject
handleUpdateProject(a, project) ==
    [a EXCEPT !.storage = saveProject(@, project),
              !.currentProject = project]

\* updateParagraph of the Editor rendered with this project: the new
\* project is built from the project the callback closed over
updateParagraphOf(project, p, updated) ==
    [project EXCEPT !.paragraphs[p] = updated]

Without(s, n) == [m \in 1..(Len(s) - 1) |-> IF m < n THEN s[m] ELSE s[m + 1]]

\* handleSelectProject(id), from the project list
handleSelectProject ==
    /\ UserActs
    /\ app.view = "list"
    /\ \E n \in 1..Len(app.projects) :
          \E project \in {getProject(app.storage, app.projects[n])} :
             /\ project # NoProject
             /\ app' = [app EXCEPT !.currentProject = project,
                                   !.current = project.id,
                                   !.view = "editor",
                                   !.events = @ + 1]
    /\ AppIdle

\* handleDeleteProject(id), from the project list
handleDeleteProject ==
    /\ UserActs
    /\ app.view = "list"
    /\ \E n \in 1..Len(app.projects) :
          \E storage \in {deleteProject(app.storage, app.projects[n])} :
             app' = [app EXCEPT !.storage = storage,
                                !.projects = getProjectList(storage),
                                !.deleted = @ \cup {app.projects[n]},
                                !.events = @ + 1]
    /\ AppIdle

\* handleBackToList, from the Editor, which is unmounted: its translatingIds
\* are gone and the translations it awaits finish without it
handleBackToList ==
    /\ UserActs
    /\ EditorMounted
    /\ app' = [app EXCEPT !.view = "list",
                          !.currentProject = NoProject,
                          !.current = 0,
                          !.projects = getProjectList(app.storage),
                          !.translatingIds = {},
                          !.inflight = [n \in 1..Len(@) |->
                                           [@[n] EXCEPT !.mounted = FALSE]],
                          !.events = @ + 1]
    /\ AppIdle

\* handleImport, up to its await of parseBookFile; the modal is opened from
\* the project list
handleImport ==
    /\ UserActs
    /\ app.view = "list"
    /\ app.nextId + app.importing <= MaxProjects
    /\ app' = [app EXCEPT !.importing = @ + 1, !.events = @ + 1]
    /\ AppIdle

\* handleImport, when parseBookFile resolves
ImportResolves ==
    /\ app.importing > 0
    /\ \E project \in {NewProject(app.nextId)} :
          \E storage \in {saveProject(app.storage, project)} :
             app' = [app EXCEPT !.storage = storage,
                                !.projects = getProjectList(storage),
                                !.currentProject = project,
                                !.current = project.id,
                                !.view = "editor",
                                !.importing = @ - 1,
                                !.nextId = @ + 1]
    /\ AppIdle

\* handleImport, when parseBookFile rejects
ImportRejects ==
    /\ app.importing > 0
    /\ app' = [app EXCEPT !.importing = @ - 1]
    /\ AppIdle

\* handleTranslate of the Editor, up to its await of translateParagraph; the
\* button is disabled for a paragraph in translatingIds
TranslateStarts ==
    /\ UserActs
    /\ EditorMounted
    /\ Len(app.inflight) < MaxInFlight
    /\ \E p \in 1..Len(app.currentProject.paragraphs) \ app.translatingIds :
          app' = [app EXCEPT !.translatingIds = @ \cup {p},
                             !.inflight = Append(@, [project |-> app.currentProject,
                                                     p |-> p,
                                                     mounted |-> TRUE]),
                             !.events = @ + 1]
    /\ AppIdle

\* what handleTranslate of the translation awaited as inflight[n] hands to
\* onUpdateProject when the translation arrives
Translated(t) ==
    updateParagraphOf(t.project, t.p,
                      [t.project.paragraphs[t.p] EXCEPT
                          !.translated = Translation(1, t.p),
                          !.status = "translated"])

\* handleTranslate, when translateParagraph resolves
TranslateArrives(n) ==
    /\ n \in 1..Len(app.inflight)
    /\ \E t \in {app.inflight[n]} :
          \E a \in {handleUpdateProject(app, Translated(t))} :
             app' = [a EXCEPT !.inflight = Without(@, n),
                              !.translatingIds =
                                  IF t.mounted THEN @ \ {t.p} ELSE @]
    /\ AppIdle

\* handleTranslate, when translateParagraph rejects
TranslateFails(n) ==
    /\ n \in 1..Len(app.inflight)
    /\ \E t \in {app.inflight[n]} :
          app' = [app EXCEPT !.inflight = Without(@, n),
                             !.translatingIds =
                                 IF t.mounted THEN @ \ {t.p} ELSE @]
    /\ AppIdle

\* handleMarkReviewed, handleTextChange and handleToggleExcluded of the
\* Editor rendered with currentProject
Edits(p) ==
    LET paragraph == app.currentProject.paragraphs[p]
    IN  (IF paragraph.translated # <<>> /\ paragraph.status # "reviewed"
         THEN {[paragraph EXCEPT !.status = "reviewed"]} ELSE {})
        \cup
        (IF paragraph.translated # <<>>
         THEN {[paragraph EXCEPT !.translated = text] : text \in Typed(1, p)}
         ELSE {})
        \cup
        {[paragraph EXCEPT !.excluded = IF @ = "true" THEN "false" ELSE "true"]}

EditsParagraph ==
    /\ UserActs
    /\ EditorMounted
    /\ \E p \in 1..Len(app.currentProject.paragraphs) :
          \E updated \in Edits(p) :
             \E a \in {handleUpdateProject(
                          app, updateParagraphOf(app.currentProject, p, updated))} :
                app' = [a EXCEPT !.events = @ + 1]
    /\ AppIdle

\* handleUpdatePrompt, from the settings panel
handleUpdatePrompt ==
    /\ UserActs
    /\ app.currentProject # NoProject
    /\ \E updated \in {[app.currentProject EXCEPT !.prompt = 1 - @]} :
          \E storage \in {saveProject(app.storage, updated)} :
             app' = [app EXCEPT !.storage = storage,
                                !.currentProject = updated,
                                !.events = @ + 1]
    /\ AppIdle

NextApp ==
    \/ handleSelectProject
    \/ handleDeleteProject
    \/ handleBackToList
    \/ handleImport
    \/ ImportResolves
    \/ ImportRejects
    \/ TranslateStarts
    \/ \E n \in 1..MaxInFlight : TranslateArrives(n)
    \/ \E n \in 1..MaxInFlight : TranslateFails(n)
    \/ EditsParagraph
    \/ handleUpdatePrompt

SpecApp == InitApp /\ [][NextApp]_vars

---------------------------------------------------------------------------
(* Layer 4 claims                                                          *)

Ran(call) == call.outcome # "NotRun"

\* the upstream input is as the data model wants it: a 36-byte secret, a
\* settings plaintext with a proper PKCS7 tail, and a .dat file made of an IV
\* and a positive number of cipher blocks
WellFormedSettings == Len(Utf8Encode(key)) = 36 /\ ValidPkcs7(settings.decryptedArray)

WellFormedDat ==
    /\ WellFormedSettings
    /\ Len(dat_file_contents) > 16
    /\ Len(dat_file_contents) % 16 = 0

\* C1: decrypt_file_content returns its input unchanged exactly for the
\* inputs shorter than 16 bytes or whose length - 16 is zero or no multiple
\* of 16, whatever the key; every other input is decrypted.
C1_PassThrough ==
    Ran(content) =>
        /\ content.outcome = "PassedThrough"
             <=> \/ Len(encrypted_content) < 16
                 \/ Len(encrypted_content) - 16 = 0
                 \/ (Len(encrypted_content) - 16) % 16 # 0
        /\ content.outcome = "PassedThrough" => content.bytes = encrypted_content

\* a 30-byte file came back unchanged
C1_Witness ==
    /\ content.outcome = "PassedThrough"
    /\ Len(encrypted_content) = 30
    /\ content.bytes = encrypted_content

\* C2: for a 16-byte book key, every IV and every plaintext, the file
\* IV || CBC-encrypt(key, IV, PKCS7-pad(plaintext)) decrypts to the plaintext.
C2_ContentRoundTrip ==
    Ran(content) /\ Len(derived.book_key) = 16 =>
        \A n \in 1..NumIVs, p \in ContentPlaintexts :
            encrypted_content
                = IV(n) \o CbcEncrypt(derived.book_key, IV(n), Pkcs7Pad(p))
            => content.outcome = "Decrypted" /\ content.bytes = p

\* the file made of the empty plaintext, and one made of a plaintext that
\* ends like padding, were decrypted
C2_Witness ==
    /\ content.outcome = "Decrypted"
    /\ Len(derived.book_key) = 16
    /\ \E n \in 1..NumIVs, p \in {<<>>, Text(14) \o <<2, 2>>} :
          /\ encrypted_content
               = IV(n) \o CbcEncrypt(derived.book_key, IV(n), Pkcs7Pad(p))
          /\ content.bytes = p

\* C3: decrypt_file_content, given the book key that derive_book_key
\* returned, never ends in an error: every call is PassedThrough, Decrypted
\* or DecryptedUnpadded.
C3_NeverAnError ==
    Ran(content) /\ WellFormedDat =>
        content.outcome \in {"PassedThrough", "Decrypted", "DecryptedUnpadded"}

\* the bytes the cipher gives for the content file, with the key it accepts
DecryptedContent ==
    CbcDecrypt(derived.book_key, Slice(encrypted_content, 0, 16),
               SliceFrom(encrypted_content, 16))

\* C15: when decrypt_file_content decrypts (a file of 32 or more bytes with
\* length - 16 a multiple of 16, and a key the cipher takes), it trims the
\* last P bytes exactly when the last decrypted byte P is in 1..16 and the
\* last P bytes all equal P; otherwise it returns all decrypted bytes; the
\* output has length - 16 - P or length - 16 bytes.
C15_TrimsValidPaddingOnly ==
    (Ran(content) /\ Len(encrypted_content) >= 32
        /\ (Len(encrypted_content) - 16) % 16 = 0
        /\ ValidAesKey(derived.book_key)) =>
        LET P == DecryptedContent[Len(DecryptedContent)] IN
        IF ValidPkcs7(DecryptedContent)
        THEN /\ content.outcome = "Decrypted"
             /\ content.bytes = SubSeq(DecryptedContent, 1,
                                       Len(DecryptedContent) - P)
             /\ Len(content.bytes) = Len(encrypted_content) - 16 - P
        ELSE /\ content.outcome = "DecryptedUnpadded"
             /\ content.bytes = DecryptedContent
             /\ Len(content.bytes) = Len(encrypted_content) - 16

\* decrypted bytes that end in 32, 2 came back untrimmed
C15_Witness ==
    /\ content.outcome = "DecryptedUnpadded"
    /\ ValidAesKey(derived.book_key)
    /\ content.bytes = DecryptedContent
    /\ content.bytes[Len(content.bytes)] = 2
    /\ content.bytes[Len(content.bytes) - 1] = 32

---------------------------------------------------------------------------
(* Layer 3 claims                                                          *)

\* C4: a book key that derive_book_key returns is exactly 16 bytes long and
\* is the UTF-8 encoding of characters 68..83 of the decrypted text.
C4_BookKeyIs16Bytes ==
    derived.outcome = "Returned" /\ WellFormedDat =>
        /\ Len(derived.book_key) = 16
        /\ Len(derived.decrypted_str) >= 84
        /\ derived.book_key = Utf8Encode(SubSeq(derived.decrypted_str, 69, 84))

\* C5: derive_book_key fails whenever the decrypted key material is no UTF-8
\* or has fewer than 84 characters, or the device identifier has fewer than
\* 16 bytes; it returns no key then.
C5_FailsHard ==
    derived.outcome = "Returned" /\ WellFormedDat =>
        /\ Len(Utf8Encode(device_id)) >= 16
        /\ Utf8Decode(derived.decrypted).ok
        /\ Len(Utf8Decode(derived.decrypted).text) >= 84

\* the ASCII plaintexts of 84 or more characters of the key-material layer
LongAsciiTexts == {Text(n) : n \in {84, 96}}

IsAscii(t) == \A i \in 1..Len(t) : t[i] < 128

\* C6: for a device identifier of at least 16 bytes (here: an ASCII one),
\* every IV and every ASCII plaintext of 84 or more characters, the file
\* IV || AES-128-CBC(identifier[0:16], plaintext) decrypts to the plaintext
\* and the book key is plaintext[68:84].
C6_KeyMaterialRoundTrip ==
    (Ran(derived) /\ WellFormedSettings /\ IsAscii(device_id)
        /\ Len(Utf8Encode(device_id)) >= 16) =>
        \A n \in 1..NumIVs, p \in LongAsciiTexts :
            dat_file_contents
                = IV(n) \o CbcEncrypt(WriterKey(device_id), IV(n), Pkcs7Pad(p))
            => /\ derived.outcome = "Returned"
               /\ derived.decrypted = p
               /\ derived.book_key = Slice(p, 68, 84)

\* C16: for an identifier of 16 or more bytes the cipher key of
\* derive_book_key is the first 16 bytes of the identifier's UTF-8 encoding,
\* always 16 bytes, also with multi-byte characters among the first 16; the
\* IV is the first 16 bytes of the file and the ciphertext is the rest.
C16_KeyIsFirst16Bytes ==
    (Ran(derived) /\ WellFormedDat /\ Utf8Decode(settings.unpaddedArray).ok
        /\ Len(Utf8Encode(device_id)) >= 16) =>
        /\ Len(intermediate_key(device_id)) = 16
        /\ intermediate_key(device_id) = Slice(Utf8Encode(device_id), 0, 16)
        /\ derived.outcome = "Returned" =>
              derived.decrypted
                  = CbcDecrypt(Slice(Utf8Encode(device_id), 0, 16),
                               Slice(dat_file_contents, 0, 16),
                               SliceFrom(dat_file_contents, 16))

\* C17: derive_book_key removes the PKCS7 padding before it decodes: for a
\* file written as IV || CBC(key, PKCS7-pad(text)) the text it measures and
\* slices is the text that was written, without padding bytes.
C17_PaddingIsRemoved ==
    (derived.outcome = "Returned" /\ WellFormedDat /\ IsAscii(device_id)
        /\ Len(device_id) >= 16) =>
        \A n \in 1..NumIVs, text \in {Text(80), Text(84)} :
            dat_file_contents
                = IV(n) \o CbcEncrypt(WriterKey(device_id), IV(n),
                                      Pkcs7Pad(text))
            => /\ derived.decrypted_str = text
               /\ \A i \in 1..Len(derived.book_key) :
                     derived.book_key[i] \in {text[j] : j \in 69..Len(text)}

\* a key-material text with the two-byte character U+00E9 before offset 68
AccentBefore68 == TextWith(100, 10)

---------------------------------------------------------------------------
(* Layer 4 claims: the files of a title                                    *)

\* C11: whatever the order in which the calls for the files of a title take
\* their steps, a call that has ended has the outcome and the bytes that
\* decrypt_file_content gives for its file and the key alone, and no step
\* changes the key.
C11_FilesIndependent ==
    /\ [](\A i \in 1..NumFiles :
            title.calls[i].pc = "done" =>
                /\ title.calls[i].outcome
                     = decrypt_file_content(title.calls[i].encrypted_content,
                                            title.key).outcome
                /\ title.calls[i].bytes
                     = decrypt_file_content(title.calls[i].encrypted_content,
                                            title.key).bytes)
    /\ [][title'.key = title.key]_vars

\* a call has decrypted its file while an earlier call for another file,
\* with another iv, is still between its cipher and its padding step
C11_Witness ==
    /\ NumFiles >= 2
    /\ title.calls[2].outcome = "Decrypted"
    /\ title.calls[1].pc = "line197"
    /\ title.calls[1].iv # title.calls[2].iv

---------------------------------------------------------------------------
(* Export claims                                                           *)

\* the lines of a markdown text that are neither blank nor a heading ("#")
\* nor the author line ("*"), without the blanks around them
IsBodyLine(line) == line # <<>> /\ line[1] \notin {35, 42}

TrimAll(lines) == [i \in 1..Len(lines) |-> JsTrim(lines[i])]

BodyLines(markdown) == SelectSeq(TrimAll(SplitLines(markdown)), IsBodyLine)

\* the translated texts, in chapter order and in-chapter order, of the
\* paragraphs that are reviewed and not excluded
IsToExport(paragraph) ==
    paragraph.status = "reviewed" /\ paragraph.excluded # "true"

RECURSIVE TextsToExport(_)
TextsToExport(chapters) ==
    IF chapters = <<>> THEN <<>>
    ELSE LET kept == SelectSeq(Head(chapters).paragraphs, IsToExport)
         IN  [i \in 1..Len(kept) |-> kept[i].translated]
             \o TextsToExport(Tail(chapters))

\* C13: the export holds the translated text of a paragraph exactly when
\* the paragraph is reviewed and not excluded, and the texts it holds are in
\* chapter order and in-chapter order: its body lines are those texts.
C13_ExportsReviewedOnly ==
    editor.download =>
        BodyLines(editor.markdown)
            = SelectSeq(TrimAll(TextsToExport(editor.chapters)), IsBodyLine)

\* an export of one text: the first paragraph is reviewed but excluded, the
\* second translated only, the third reviewed and edited
C13_Witness ==
    /\ editor.download
    /\ editor.chapters[1].paragraphs[1].status = "reviewed"
    /\ editor.chapters[1].paragraphs[1].excluded = "true"
    /\ editor.chapters[1].paragraphs[1].translated # <<>>
    /\ editor.chapters[1].paragraphs[2].status = "translated"
    /\ editor.chapters[2].paragraphs[1].status = "reviewed"
    /\ editor.chapters[2].paragraphs[1].excluded # "true"
    /\ BodyLines(editor.markdown) = <<<<85, 50, 49>>>>

---------------------------------------------------------------------------
(* Server claims                                                           *)

\* the host is gutenberg.org or one of its subdomains
IsGutenbergHost(hostname) ==
    \/ hostname = GutenbergOrg
    \/ /\ EndsWith(hostname, <<46>> \o GutenbergOrg)
       /\ Len(hostname) > Len(GutenbergOrg) + 1

\* C14: every URL the route has fetched parses and has the host
\* gutenberg.org or a subdomain of it; a request whose url parameter is
\* missing, does not parse or names another host is answered 400.
C14_FetchesGutenbergOnly ==
    /\ \A i \in 1..Len(server.fetched) :
          /\ ParseUrl(server.fetched[i]).ok
          /\ IsGutenbergHost(ParseUrl(server.fetched[i]).hostname)
    /\ (/\ server.served > 0
        /\ \/ server.gutenbergUrl.null
           \/ ~ParseUrl(server.gutenbergUrl.s).ok
           \/ ~IsGutenbergHost(ParseUrl(server.gutenbergUrl.s).hostname))
       => server.status = 400

---------------------------------------------------------------------------
(* Layer 2 claims                                                          *)

\* the script went on to decrypt the settings file
Decrypts == settings.outcome \notin {"NotRun", "Usage"}

\* the script trimmed the decrypted bytes and handed them to JSON.parse
Trims == settings.outcome \notin {"NotRun", "Usage", "HexDump"}

\* C7: no secret whose length is not exactly 36 bytes is used as key
\* material for the settings decryption.
C7_OnlyA36ByteSecret == Decrypts => Len(Utf8Encode(key)) = 36

\* the blob with every byte of its first 256 replaced by another
OtherHeader(blob) ==
    [i \in 1..Len(blob) |-> IF i <= 256 THEN (blob[i] + 1) % 256 ELSE blob[i]]

\* C18: the ciphertext the script decrypts is the blob without its first
\* 256 bytes (nothing for a blob of 256 bytes or fewer), and a blob that
\* differs in its first 256 bytes only gives the same result (looked at
\* when the script has ended, before anything else runs).
C18_HeaderIsSkipped ==
    (Decrypts /\ ~Ran(derived)) =>
        /\ settings.ciphertext = SubSeq(data, 257, Len(data))
        /\ decrypt_settings(key, OtherHeader(data)) = settings

\* a device identifier came out of a blob of more than 256 bytes, and the
\* same comes out with another header
C18_Witness ==
    /\ settings.outcome = "DeviceId"
    /\ Len(data) > 256
    /\ settings.ciphertext = SubSeq(data, 257, Len(data))
    /\ OtherHeader(data) # data
    /\ decrypt_settings(key, OtherHeader(data)).deviceId = settings.deviceId

\* the key material is the secret's bytes followed by PKCS7 padding up to a
\* multiple of 16 bytes
IsPaddedKey(material, secret) ==
    /\ Len(material) > Len(secret)
    /\ Len(material) - Len(secret) <= 16
    /\ Len(material) % 16 = 0
    /\ Len(material) % 4 = 0
    /\ SubSeq(material, 1, Len(secret)) = secret
    /\ \A i \in (Len(secret) + 1)..Len(material) :
          material[i] = Len(material) - Len(secret)

\* C19 as stated: the key material is padded exactly when the number of
\* UTF-8 bytes of the secret is no multiple of 16, and is the secret's bytes
\* otherwise (here for the secrets of 36 bytes).
C19_PadsByByteLength ==
    (Decrypts /\ Len(Utf8Encode(key)) = 36) =>
        IF Len(Utf8Encode(key)) % 16 # 0
        THEN IsPaddedKey(settings.keyWordArray, Utf8Encode(key))
        ELSE settings.keyWordArray = Utf8Encode(key)

\* C19 amended: the key material is padded exactly when the length of the
\* secret as a JavaScript string is no multiple of 16, and is the secret's
\* bytes otherwise; padded key material is a multiple of 16 (so of 4) bytes.
C19_PadsByStringLength ==
    Decrypts =>
        IF JsLength(key) % 16 # 0
        THEN IsPaddedKey(settings.keyWordArray, Utf8Encode(key))
        ELSE settings.keyWordArray = Utf8Encode(key)

\* the 36-character secret became 48 bytes of key material
C19_Witness ==
    /\ Decrypts
    /\ JsLength(key) = 36
    /\ Len(settings.keyWordArray) = 48
    /\ IsPaddedKey(settings.keyWordArray, Utf8Encode(key))

\* the n-th 16-byte block of the bytes s, cut at the end of s
BlockOf(s, n) == Slice(s, (n - 1) * BLOCK, Min(n * BLOCK, Len(s)))

NumBlocks(s) == (Len(s) + BLOCK - 1) \div BLOCK

\* the blob with every byte of the n-th block after the header replaced by
\* another
OtherBlock(blob, n) ==
    [i \in 1..Len(blob) |->
        IF i > HEADER_SIZE + (n - 1) * BLOCK /\ i <= HEADER_SIZE + n * BLOCK
        THEN (blob[i] + 1) % 256 ELSE blob[i]]

\* C21: the settings are decrypted block by block with nothing carried from
\* one block to the next: the decrypted bytes are as many as the ciphertext
\* bytes, equal ciphertext blocks give equal decrypted blocks, and a blob
\* that differs in one ciphertext block only gives the same decrypted bytes
\* in every other block (looked at when the script has ended, before
\* anything else runs).
C21_BlocksAreIndependent ==
    (Decrypts /\ ~Ran(derived)) =>
        LET c == settings.ciphertext
            d == settings.decryptedArray
        IN  /\ Len(d) = Len(c)
            /\ \A m, n \in 1..NumBlocks(c) :
                  BlockOf(c, m) = BlockOf(c, n) => BlockOf(d, m) = BlockOf(d, n)
            /\ \A n \in 1..NumBlocks(c) :
                  LET other == decrypt_settings(key, OtherBlock(data, n))
                  IN  /\ other.ciphertext # c
                      /\ \A m \in 1..NumBlocks(c) \ {n} :
                            BlockOf(other.decryptedArray, m) = BlockOf(d, m)

\* a ciphertext of three blocks was decrypted, its first two blocks equal
\* and its third another, and so are the decrypted blocks
C21_Witness ==
    /\ Decrypts
    /\ NumBlocks(settings.ciphertext) = 3
    /\ Len(settings.decryptedArray) = 48
    /\ BlockOf(settings.ciphertext, 1) = BlockOf(settings.ciphertext, 2)
    /\ BlockOf(settings.ciphertext, 3) # BlockOf(settings.ciphertext, 2)
    /\ BlockOf(settings.decryptedArray, 1) = BlockOf(settings.decryptedArray, 2)
    /\ BlockOf(settings.decryptedArray, 3) # BlockOf(settings.decryptedArray, 2)

\* C9: the decrypted settings are trimmed exactly when their last byte P is
\* in 1..16 and the last P bytes all equal P; otherwise nothing is decoded
\* or parsed.
C9_TrimsOnlyValidPadding ==
    Decrypts /\ Len(Utf8Encode(key)) = 36 =>
        (Trims <=> ValidPkcs7(settings.decryptedArray))

\* C10: once the padding is trimmed the script ends with a device identifier
\* or with a failure; a parsed record without the nested deviceId field is a
\* failure, not a normal end and not an undefined identifier.
C10_MissingDeviceIdFails ==
    Trims /\ WellFormedSettings =>
        \/ settings.outcome = "DeviceId" /\ settings.deviceId.t # "undefined"
        \/ settings.outcome \in {"SyntaxError", "TypeError"}


---------------------------------------------------------------------------
(* Import claims                                                           *)

Originals(paragraphs) == [p \in 1..Len(paragraphs) |-> paragraphs[p].original]

\* the summed length of the texts a..b of in
SummedLength(in, a, b) ==
    LET Step(sum, i) == sum + JsLength(in[i])
    IN  Loop(Step, 0, a, b)

\* out is in cut into consecutive groups, each joined with a blank line;
\* every group but the last reaches minLength, and does not without its
\* last member
IsGrouping(in, out, minLength) ==
    IF Len(in) = 0 THEN Len(out) = 0
    ELSE \E cuts \in SUBSET (1..(Len(in) - 1)) :
            LET ends == cuts \cup {Len(in)}
                End(j) == CHOOSE e \in ends : Cardinality({x \in ends : x <= e}) = j
                Start(j) == IF j = 1 THEN 1 ELSE End(j - 1) + 1
            IN  /\ Cardinality(ends) = Len(out)
                /\ \A j \in 1..Len(out) :
                      /\ out[j] = Join(SubSeq(in, Start(j), End(j)), BlankLine)
                      /\ j < Len(out) =>
                            /\ SummedLength(in, Start(j), End(j)) >= minLength
                            /\ SummedLength(in, Start(j), End(j) - 1) < minLength

\* C22: grouping keeps content and order.  In every chapter the texts of
\* the groups, joined with a blank line, are the texts of the paragraphs
\* joined with a blank line; the groups are consecutive runs of paragraphs,
\* each but the last of summed length >= 250 and below 250 without its last
\* member; the groups are numbered p-0, p-1, ...; no paragraphs give no
\* groups.
C22_GroupingPreservesContent ==
    book.pc = "grouped" =>
        /\ Len(book.chapters) = Len(book.parsed)
        /\ \A c \in 1..Len(book.chapters) :
              LET in == Originals(book.parsed[c].paragraphs)
                  out == Originals(book.chapters[c].paragraphs)
              IN  /\ Join(out, BlankLine) = Join(in, BlankLine)
                  /\ IsGrouping(in, out, MIN_GROUP_LENGTH)
                  /\ \A j \in 1..Len(out) : book.chapters[c].paragraphs[j].id = j - 1
        /\ groupParagraphs(<<>>, MIN_GROUP_LENGTH) = <<>>

\* four paragraphs became a group of two, of 250 characters and a blank
\* line, and a last group of two that stays below 250
C22_Witness ==
    /\ book.pc = "grouped"
    /\ Len(book.chapters) = 1
    /\ Len(book.parsed[1].paragraphs) = 4
    /\ Len(book.chapters[1].paragraphs) = 2
    /\ Len(book.chapters[1].paragraphs[1].original) = 252
    /\ Len(book.chapters[1].paragraphs[2].original) = 102
    /\ IsGrouping(Originals(book.parsed[1].paragraphs),
                  Originals(book.chapters[1].paragraphs), MIN_GROUP_LENGTH)

\* the lines parseTextFile goes through, trimmed
TrimmedLines(text, lib) ==
    TrimAll(SplitNewlines(IF lib = "storage" THEN text
                          ELSE stripGutenbergBoilerplate(text)))

\* the text between two headings: the lines a..b that are not blank, joined
\* with one blank
SegmentText(lines, a, b) ==
    Join(SelectSeq(SubSeq(lines, a, b), LAMBDA line : line # <<>>), <<32>>)

\* the chapters the lines call for: one for the text before the first
\* heading, titled "Beginning", and one for each heading, titled with it,
\* each with the text up to the next heading; those without text left out
ExpectedChapters(lines, lib) ==
    LET heads == {i \in 1..Len(lines) : IsHeading(lines[i], lib)}
        starts == heads \cup {0}
        Nth(k) == CHOOSE h \in starts : Cardinality({x \in starts : x < h}) = k - 1
        Until(h) == IF \E x \in heads : x > h
                    THEN (CHOOSE x \in heads : x > h /\ \A y \in heads : y > h => x <= y) - 1
                    ELSE Len(lines)
        all == [k \in 1..Cardinality(starts) |->
                   [title |-> IF Nth(k) = 0 THEN Beginning ELSE lines[Nth(k)],
                    text |-> SegmentText(lines, Nth(k) + 1, Until(Nth(k)))]]
    IN  SelectSeq(all, LAMBDA ch : ch.text # <<>>)

\* C23: parseTextFile returns no chapter without paragraphs and no
\* paragraph without text; the text before the first heading is in a
\* chapter titled "Beginning", and every heading closes the paragraph before
\* it: each returned chapter holds exactly the text between its heading and
\* the next.
C23_ChaptersAndParagraphsNotEmpty ==
    book.pc = "parsed" =>
        LET expected == ExpectedChapters(TrimmedLines(book.text, book.lib), book.lib)
        IN  /\ \A c \in 1..Len(book.parsed) :
                  /\ Len(book.parsed[c].paragraphs) > 0
                  /\ \A p \in 1..Len(book.parsed[c].paragraphs) :
                        /\ book.parsed[c].paragraphs[p].original # <<>>
                        /\ JsTrim(book.parsed[c].paragraphs[p].original) # <<>>
            /\ Len(book.parsed) = Len(expected)
            /\ \A c \in 1..Len(expected) :
                  /\ book.parsed[c].title = expected[c].title
                  /\ Join(Originals(book.parsed[c].paragraphs), <<32>>) = expected[c].text

\* a line of text, a heading and a line of text: the heading closed the
\* first paragraph, which is in "Beginning", and the second is in the
\* chapter of the heading
C23_Witness ==
    /\ book.pc = "parsed"
    /\ book.text = Join(<<<<32, 32, 73, 116, 32, 119, 97, 115, 32, 108, 97, 116, 101, 46, 32>>, <<67, 104, 97, 112, 116, 101, 114, 32, 49>>, <<32, 32, 73, 116, 32, 119, 97, 115, 32, 108, 97, 116, 101, 46, 32>>>>, Newline)
    /\ Len(book.parsed) = 2
    /\ book.parsed[1].title = Beginning
    /\ Originals(book.parsed[1].paragraphs) = <<<<73, 116, 32, 119, 97, 115, 32, 108, 97, 116, 101, 46>>>>
    /\ book.parsed[2].title = <<67, 104, 97, 112, 116, 101, 114, 32, 49>>
    /\ Originals(book.parsed[2].paragraphs) = <<<<73, 116, 32, 119, 97, 115, 32, 108, 97, 116, 101, 46>>>>

---------------------------------------------------------------------------
(* Batch translation claims                                                *)

\* C24: translateBatch sends the paragraphs one after another in input
\* order; when it has returned, the map has an entry for the id of every
\* paragraph, the entry of a paragraph whose translation threw is the empty
\* string, every paragraph was sent although some threw, and onProgress was
\* called once per paragraph, with (1, n), (2, n), ..., (n, n).
C24_BatchRecordsEveryParagraph ==
    LET n == Len(batch.paragraphs) IN
    /\ batch.called = [k \in 1..Len(batch.called) |-> k - 1]
    /\ batch.pc = "returned" =>
          /\ Len(batch.called) = n
          /\ \A k \in 1..n : batch.paragraphs[k].id \in DOMAIN batch.results
          /\ \A k \in 1..n :
                (k - 1) \in batch.thrown =>
                    batch.results[batch.paragraphs[k].id] = <<>>
          /\ batch.onProgress = [k \in 1..n |-> <<k, n>>]

---------------------------------------------------------------------------
(* Progress claims                                                         *)

\* the paragraphs of the project that are not excluded
Counted(project) ==
    UNION {{<<c, p>> : p \in {q \in 1..Len(project.chapters[c].paragraphs) :
                                 project.chapters[c].paragraphs[q].excluded # "true"}} :
           c \in 1..Len(project.chapters)}

\* C25: for the project in the editor, the progress of its summary in the
\* project list equals the progress the editor shows; total is the number
\* of paragraphs that are not excluded, translated and reviewed count those
\* of them with that status, and translated + reviewed <= total.
C25_SameProgress ==
    editor.chapters # <<>> =>
        LET project == Project(editor.chapters)
            shown == getProjectProgress(project)
            With(status) ==
                {cp \in Counted(project) :
                    project.chapters[cp[1]].paragraphs[cp[2]].status = status}
        IN  /\ projectToSummary(project).progress = shown
            /\ shown.total = Cardinality(Counted(project))
            /\ shown.translated = Cardinality(With("translated"))
            /\ shown.reviewed = Cardinality(With("reviewed"))
            /\ shown.translated + shown.reviewed <= shown.total

\* of three paragraphs one is excluded, one translated and one reviewed:
\* both show 1 translated and 1 reviewed of 2
C25_Witness ==
    /\ editor.chapters # <<>>
    /\ \E c \in 1..Len(editor.chapters) :
          \E p \in 1..Len(editor.chapters[c].paragraphs) :
             /\ editor.chapters[c].paragraphs[p].excluded = "true"
             /\ editor.chapters[c].paragraphs[p].status = "translated"
    /\ getProjectProgress(Project(editor.chapters))
           = [translated |-> 1, reviewed |-> 1, total |-> 2]
    /\ projectToSummary(Project(editor.chapters)).progress
           = [translated |-> 1, reviewed |-> 1, total |-> 2]

-----------------------------------------------------------------------------
(* App claims                                                               *)
-----------------------------------------------------------------------------

\* the paragraphs other than p are in after what they are in before
SameButFor(before, after, p) ==
    /\ Len(after.paragraphs) = Len(before.paragraphs)
    /\ \A q \in 1..Len(before.paragraphs) :
          q # p => after.paragraphs[q] = before.paragraphs[q]

\* paragraph p of the project has the text the translation returned for it
HasOwnText(project, p) ==
    /\ project.paragraphs[p].translated = Translation(1, p)
    /\ project.paragraphs[p].status = "translated"

\* the arrival of the translation awaited as inflight[n] gives its
\* paragraph its text and leaves every other paragraph of the project as it
\* is at that time, in the project on screen and in localStorage
ArrivalKeepsOthers(n) ==
    LET t == app.inflight[n]
        stored == getProject(app.storage, t.project.id)
    IN  /\ (EditorMounted /\ app.currentProject.id = t.project.id)
              => /\ app'.currentProject.id = t.project.id
                 /\ HasOwnText(app'.currentProject, t.p)
                 /\ SameButFor(app.currentProject, app'.currentProject, t.p)
        /\ (stored # NoProject)
              => /\ HasOwnText(getProject(app'.storage, t.project.id), t.p)
                 /\ SameButFor(stored, getProject(app'.storage, t.project.id), t.p)

\* C26: no translation result is lost when requests overlap: a translation
\* that arrives changes its own paragraph only, so that the results of the
\* translations that arrived before it and the edits made since it started
\* are kept in currentProject and in localStorage
C26_NoResultLost ==
    [][\A n \in 1..MaxInFlight : TranslateArrives(n) => ArrivalKeepsOthers(n)]_vars

\* C27: a project that was deleted is in localStorage no more, whatever
\* arrives later
C27_DeletedStaysDeleted ==
    \A id \in app.deleted : getProject(app.storage, id) = NoProject

\* C28: currentProject is a project exactly when the view is the editor,
\* and then bookor_current_project holds its id
C28_ViewMatchesProject ==
    /\ (app.currentProject # NoProject) <=> (app.view = "editor")
    /\ (app.view = "editor") => (app.current = app.currentProject.id)

=============================================================================
